---- MODULE Spec2Model ----
(***************************************************************************)
(* Release-flow state machine of regardio/dev: flow-release, flow-ship and *)
(* flow-hotfix (start / finish) together with their shared utilities       *)
(* (bumpVersion, insertChangelog, runQualityChecks, branchExists), run     *)
(* against a model of one local git clone and its origin.                  *)
(*                                                                         *)
(* A commit is a record in the sequence "commits"; a ref maps a branch     *)
(* name to an index of that sequence, 0 meaning "the branch is absent".    *)
(***************************************************************************)
EXTENDS Integers, Sequences, FiniteSets, TLC

VARIABLES
    commits,      \* the commit graph shared by the clone and origin
    local,        \* refs/heads/* of the operator's clone
    tracking,     \* refs/remotes/origin/* of the operator's clone
    origin,       \* refs/heads/* of the origin repository
    head,         \* the checked-out branch
    wtVersion,    \* "version" of package.json in the working tree
    wtFields,     \* the members of package.json in the working tree, in file order
    wtChangelog,  \* CHANGELOG.md in the working tree
    tree,         \* "clean", "dirty" (unstaged changes) or "staged"
    phase,        \* "idle", "running" or "exited"
    cmd,          \* the flow being run
    subcommand,   \* flow-hotfix <subcommand>
    pc,           \* index of the next instruction of the flow
    kind,         \* first CLI argument (bump type)
    name,         \* flow-hotfix start <name>
    message,      \* the message argument(s), joined
    curBranch,    \* currentBranch as read by flow-hotfix finish
    exitCode,     \* exit code of the run (-1 while none is available)
    cause,        \* why the run ended
    gatePassed,   \* runQualityChecks returned in this run
    fixOutcome,   \* how the fix script of this run ended
    lastDone,     \* the flow whose completed run was the last thing done ("": none)
    verCommit,    \* the version commit created by this run (0: none)
    pre,          \* the repository as it was when the run started
    priorOk,      \* every earlier run completed and main got no direct commit
    priorDone,    \* every earlier run completed
    interrupted,  \* the run killed right before, if any
    events,       \* runs, network failures, manual commits and foreign pushes so far
    calls         \* direct calls of the utils.ts functions, oldest first

repoVars == <<commits, local, tracking, origin, head, wtVersion, wtFields, wtChangelog,
              tree>>
runVars == <<phase, cmd, subcommand, pc, kind, name, message, curBranch, exitCode, cause,
             gatePassed, fixOutcome, verCommit, pre, priorOk, priorDone, lastDone,
             interrupted>>
vars == <<repoVars, runVars, events, calls>>

\* Bounds of the model.
MaxEvents == 4

Pipeline == {"main", "staging", "production"}
HotfixNames == {"a", "b"}
HotfixBranch(n) == "hotfix/" \o n
HotfixBranches == {HotfixBranch(n) : n \in HotfixNames}
Branches == Pipeline \cup HotfixBranches

----------------------------------------------------------------------------
(* Strings.  A string is a TLA+ string; Len, SubSeq and \o work on its     *)
(* characters.                                                             *)

\* String.prototype.indexOf, 0-based, -1 when there is no occurrence.
IndexOf(s, pat) ==
    LET hits == {i \in 1..(Len(s) - Len(pat) + 1) : SubSeq(s, i, i + Len(pat) - 1) = pat} IN
    IF hits = {} THEN -1
    ELSE (CHOOSE i \in hits : \A k \in hits : i <= k) - 1

\* String.prototype.slice(from, to), 0-based, end exclusive.
Slice(s, from, to) == SubSeq(s, from + 1, to)
SliceFrom(s, from) == SubSeq(s, from + 1, Len(s))
CharAt(s, i) == SubSeq(s, i, i)

WhitespaceChars == {" ", "\n", "\t", "\r"}

RECURSIVE TrimEnd(_)
TrimEnd(s) ==
    IF Len(s) > 0 /\ CharAt(s, Len(s)) \in WhitespaceChars
    THEN TrimEnd(SubSeq(s, 1, Len(s) - 1))
    ELSE s

RECURSIVE TrimStart(_)
TrimStart(s) ==
    IF Len(s) > 0 /\ CharAt(s, 1) \in WhitespaceChars
    THEN TrimStart(SubSeq(s, 2, Len(s)))
    ELSE s

Trim(s) == TrimStart(TrimEnd(s))

RECURSIVE Split(_, _)
\* String.prototype.split(sep) for a one-character separator.
Split(s, sep) ==
    LET at == IndexOf(s, sep) IN
    IF at = -1 THEN <<s>>
    ELSE <<Slice(s, 0, at)>> \o Split(SliceFrom(s, at + 1), sep)

Digits == "0123456789"
IsDigit(ch) == Len(ch) = 1 /\ IndexOf(Digits, ch) # -1
IsDigits(s) == Len(s) > 0 /\ \A i \in 1..Len(s) : IsDigit(CharAt(s, i))

RECURSIVE ParseDigits(_)
ParseDigits(s) ==
    IF Len(s) = 0 THEN 0
    ELSE ParseDigits(SubSeq(s, 1, Len(s) - 1)) * 10 + IndexOf(Digits, CharAt(s, Len(s)))

\* The value Number() gives for text that is no number.
NaN == -1000000

\* Number(text) for decimal integer text: surrounding whitespace is ignored,
\* the empty string is 0, a sign is accepted, anything else is NaN.
Number(text) ==
    LET t == Trim(text) IN
    IF t = "" THEN 0
    ELSE IF IsDigits(t) THEN ParseDigits(t)
    ELSE IF CharAt(t, 1) = "-" /\ IsDigits(SliceFrom(t, 1)) THEN 0 - ParseDigits(SliceFrom(t, 1))
    ELSE IF CharAt(t, 1) = "+" /\ IsDigits(SliceFrom(t, 1)) THEN ParseDigits(SliceFrom(t, 1))
    ELSE NaN

RECURSIVE ToStr(_)
\* `${n}` for a number n.
ToStr(n) ==
    IF n = NaN THEN "NaN"
    ELSE IF n < 0 THEN "-" \o ToStr(0 - n)
    ELSE IF n < 10 THEN CharAt(Digits, n + 1)
    ELSE ToStr(n \div 10) \o CharAt(Digits, (n % 10) + 1)

----------------------------------------------------------------------------
(* bumpVersion.                                                            *)

\* The thrown Error, as a value.
InvalidSemver(current) == "Error: Invalid semver: " \o current
IsError(v) == Len(v) >= 6 /\ SubSeq(v, 1, 6) = "Error:"

\* Variant of bumpVersion whose minor bump keeps the patch number.
bumpVersionKeepsPatch(current, bump) ==
    LET segments == Split(current, ".")
        parts == [i \in 1..Len(segments) |-> Number(segments[i])]
    IN
    IF Len(parts) # 3 \/ \E i \in 1..Len(parts) : parts[i] = NaN
    THEN InvalidSemver(current)
    ELSE IF bump = "major" THEN ToStr(parts[1] + 1) \o ".0.0"
    ELSE IF bump = "minor"
    THEN ToStr(parts[1]) \o "." \o ToStr(parts[2] + 1) \o "." \o ToStr(parts[3])
    ELSE ToStr(parts[1]) \o "." \o ToStr(parts[2]) \o "." \o ToStr(parts[3] + 1)

\* Variant of bumpVersion that rejects an unrecognized bump kind.
bumpVersionStrict(current, bump) ==
    LET segments == Split(current, ".")
        parts == [i \in 1..Len(segments) |-> Number(segments[i])]
    IN
    IF Len(parts) # 3 \/ \E i \in 1..Len(parts) : parts[i] = NaN
    THEN InvalidSemver(current)
    ELSE IF bump = "major" THEN ToStr(parts[1] + 1) \o ".0.0"
    ELSE IF bump = "minor" THEN ToStr(parts[1]) \o "." \o ToStr(parts[2] + 1) \o ".0"
    ELSE IF bump = "patch"
    THEN ToStr(parts[1]) \o "." \o ToStr(parts[2]) \o "." \o ToStr(parts[3] + 1)
    ELSE InvalidSemver(bump)

bumpVersion(current, bump) ==
    LET segments == Split(current, ".")
        parts == [i \in 1..Len(segments) |-> Number(segments[i])]
    IN
    IF Len(parts) # 3 \/ \E i \in 1..Len(parts) : parts[i] = NaN
    THEN InvalidSemver(current)
    ELSE IF bump = "major" THEN ToStr(parts[1] + 1) \o ".0.0"
    ELSE IF bump = "minor" THEN ToStr(parts[1]) \o "." \o ToStr(parts[2] + 1) \o ".0"
    ELSE ToStr(parts[1]) \o "." \o ToStr(parts[2]) \o "." \o ToStr(parts[3] + 1)

----------------------------------------------------------------------------
(* insertChangelog.  NoFile stands for a file that does not exist.         *)

NoFile == "<no file>"

\* Variant of insertChangelog that always appends to an existing file.
insertChangelogAppends(existing, entry) ==
    IF existing # NoFile
    THEN TrimEnd(existing) \o "\n\n" \o entry
    ELSE "# Changelog\n\n" \o entry

\* Variant of insertChangelog that creates a fresh file without the title.
insertChangelogUntitled(existing, entry) ==
    IF existing # NoFile
    THEN LET insertAt == IndexOf(existing, "\n## ") IN
         IF insertAt = -1
         THEN TrimEnd(existing) \o "\n\n" \o entry
         ELSE Slice(existing, 0, insertAt) \o "\n\n" \o entry
              \o SliceFrom(existing, insertAt + 1)
    ELSE entry

insertChangelog(existing, entry) ==
    IF existing # NoFile
    THEN LET insertAt == IndexOf(existing, "\n## ") IN
         IF insertAt = -1
         THEN TrimEnd(existing) \o "\n\n" \o entry
         ELSE Slice(existing, 0, insertAt) \o "\n\n" \o entry
              \o SliceFrom(existing, insertAt + 1)
    ELSE "# Changelog\n\n" \o entry

----------------------------------------------------------------------------
(* The commit graph.                                                       *)

NoCommit == 0

RECURSIVE Anc(_)
\* The commits reachable from c, c included.
Anc(c) ==
    IF c = NoCommit THEN {}
    ELSE {c} \cup UNION {Anc(p) : p \in commits[c].parents}

IsAncestor(a, b) == a # NoCommit /\ a \in Anc(b)

Max(S) == CHOOSE x \in S : \A y \in S : y <= x

\* git merge-base: commits are numbered in creation order, so the highest
\* common ancestor is a best common ancestor.
MergeBase(a, b) ==
    LET common == Anc(a) \cap Anc(b) IN
    IF common = {} THEN NoCommit ELSE Max(common)

\* git log a..b: the commits reachable from b and not from a, newest first.
RECURSIVE Descending(_)
Descending(S) ==
    IF S = {} THEN <<>> ELSE <<Max(S)>> \o Descending(S \ {Max(S)})

LogRange(a, b) == Descending(Anc(b) \ Anc(a))

\* Three-way merge of one file: a side that left the file as it is in the
\* base takes the other side's file; two different changes conflict.
Conflict == "<conflict>"
\* Variant: a merge with strategy option "ours", which keeps the checked-out
\* branch's file whenever the two sides differ.
MergeFileOurs(base, ours, theirs) == ours

MergeFile(base, ours, theirs) ==
    IF ours = theirs THEN ours
    ELSE IF ours = base THEN theirs
    ELSE IF theirs = base THEN ours
    ELSE Conflict

----------------------------------------------------------------------------
(* The flows as instruction sequences.  Each instruction is one statement  *)
(* of the script: a guard, a git command, a script run or a file write.    *)

Ins(op, a) == [op |-> op, a |-> a]

\* "@cur" names the branch flow-hotfix finish read as currentBranch,
\* "@new" the branch hotfix/<name> of flow-hotfix start.
\* Variant of flow-release that bumps the manifest after the quality checks.
ReleaseProgramBumps == <<
    Ins("guardBranch", "main"),
    Ins("guardClean", ""),
    Ins("fetch", ""),
    Ins("pull", "main"),
    Ins("guardExists", "staging"),
    Ins("quality", ""),
    Ins("writeManifest", ""),
    Ins("fix", ""),
    Ins("addAll", ""),
    Ins("commitIfStaged", ""),
    Ins("checkout", "staging"),
    Ins("mergeFF", "main"),
    Ins("push", "staging"),
    Ins("checkout", "main"),
    Ins("push", "main"),
    Ins("exit", "") >>

\* Variant of flow-release that checks for the staging branch only after the
\* commit step: the order the guards of release.ts must not have.
ReleaseProgramGuardLate == <<
    Ins("guardBranch", "main"),
    Ins("guardClean", ""),
    Ins("fetch", ""),
    Ins("pull", "main"),
    Ins("quality", ""),
    Ins("fix", ""),
    Ins("addAll", ""),
    Ins("commitIfStaged", ""),
    Ins("guardExists", "staging"),
    Ins("checkout", "staging"),
    Ins("mergeFF", "main"),
    Ins("push", "staging"),
    Ins("checkout", "main"),
    Ins("push", "main"),
    Ins("exit", "") >>

\* Variant of flow-release without the checkout of main after the push of
\* staging.
ReleaseProgramStaysOnStaging == <<
    Ins("guardBranch", "main"),
    Ins("guardClean", ""),
    Ins("fetch", ""),
    Ins("pull", "main"),
    Ins("guardExists", "staging"),
    Ins("quality", ""),
    Ins("fix", ""),
    Ins("addAll", ""),
    Ins("commitIfStaged", ""),
    Ins("checkout", "staging"),
    Ins("mergeFF", "main"),
    Ins("push", "staging"),
    Ins("push", "main"),
    Ins("exit", "") >>

ReleaseProgram == <<
    Ins("guardBranch", "main"),
    Ins("guardClean", ""),
    Ins("fetch", ""),
    Ins("pull", "main"),
    Ins("guardExists", "staging"),
    Ins("quality", ""),
    Ins("fix", ""),
    Ins("addAll", ""),
    Ins("commitIfStaged", ""),
    Ins("checkout", "staging"),
    Ins("mergeFF", "main"),
    Ins("push", "staging"),
    Ins("checkout", "main"),
    Ins("push", "main"),
    Ins("exit", "") >>

\* Variant of flow-ship that bumps the manifest before running the quality
\* checks.
ShipProgramGateLate == <<
    Ins("guardKind", ""),
    Ins("guardBranch", "main"),
    Ins("guardClean", ""),
    Ins("fetch", ""),
    Ins("guardExists", "staging"),
    Ins("guardExists", "production"),
    Ins("guardAhead", ""),
    Ins("confirm", ""),
    Ins("checkout", "staging"),
    Ins("pull", "staging"),
    Ins("writeManifest", ""),
    Ins("quality", "main"),
    Ins("writeChangelog", ""),
    Ins("fix", ""),
    Ins("addAll", ""),
    Ins("commit", ""),
    Ins("checkout", "production"),
    Ins("pull", "production"),
    Ins("mergeFF", "staging"),
    Ins("push", "production"),
    Ins("checkout", "main"),
    Ins("pull", "main"),
    Ins("mergeFF", "production"),
    Ins("push", "main"),
    Ins("checkout", "staging"),
    Ins("mergeFF", "main"),
    Ins("push", "staging"),
    Ins("checkout", "main"),
    Ins("exit", "") >>

\* Variant of flow-ship that asks for confirmation only after switching to
\* staging.
ShipProgramConfirmLate == <<
    Ins("guardKind", ""),
    Ins("guardBranch", "main"),
    Ins("guardClean", ""),
    Ins("fetch", ""),
    Ins("guardExists", "staging"),
    Ins("guardExists", "production"),
    Ins("guardAhead", ""),
    Ins("checkout", "staging"),
    Ins("pull", "staging"),
    Ins("confirm", ""),
    Ins("quality", "main"),
    Ins("writeManifest", ""),
    Ins("writeChangelog", ""),
    Ins("fix", ""),
    Ins("addAll", ""),
    Ins("commit", ""),
    Ins("checkout", "production"),
    Ins("pull", "production"),
    Ins("mergeFF", "staging"),
    Ins("push", "production"),
    Ins("checkout", "main"),
    Ins("pull", "main"),
    Ins("mergeFF", "production"),
    Ins("push", "main"),
    Ins("checkout", "staging"),
    Ins("mergeFF", "main"),
    Ins("push", "staging"),
    Ins("checkout", "main"),
    Ins("exit", "") >>

\* Variant of flow-ship that promotes the version commit to main first.
ShipProgramMainFirst == <<
    Ins("guardKind", ""),
    Ins("guardBranch", "main"),
    Ins("guardClean", ""),
    Ins("fetch", ""),
    Ins("guardExists", "staging"),
    Ins("guardExists", "production"),
    Ins("guardAhead", ""),
    Ins("confirm", ""),
    Ins("checkout", "staging"),
    Ins("pull", "staging"),
    Ins("quality", "main"),
    Ins("writeManifest", ""),
    Ins("writeChangelog", ""),
    Ins("fix", ""),
    Ins("addAll", ""),
    Ins("commit", ""),
    Ins("checkout", "main"),
    Ins("pull", "main"),
    Ins("mergeFF", "staging"),
    Ins("push", "main"),
    Ins("checkout", "production"),
    Ins("pull", "production"),
    Ins("mergeFF", "main"),
    Ins("push", "production"),
    Ins("checkout", "staging"),
    Ins("push", "staging"),
    Ins("checkout", "main"),
    Ins("exit", "") >>

ShipProgram == <<
    Ins("guardKind", ""),
    Ins("guardBranch", "main"),
    Ins("guardClean", ""),
    Ins("fetch", ""),
    Ins("guardExists", "staging"),
    Ins("guardExists", "production"),
    Ins("guardAhead", ""),
    Ins("confirm", ""),
    Ins("checkout", "staging"),
    Ins("pull", "staging"),
    Ins("quality", "main"),
    Ins("writeManifest", ""),
    Ins("writeChangelog", ""),
    Ins("fix", ""),
    Ins("addAll", ""),
    Ins("commit", ""),
    Ins("checkout", "production"),
    Ins("pull", "production"),
    Ins("mergeFF", "staging"),
    Ins("push", "production"),
    Ins("checkout", "main"),
    Ins("pull", "main"),
    Ins("mergeFF", "production"),
    Ins("push", "main"),
    Ins("checkout", "staging"),
    Ins("mergeFF", "main"),
    Ins("push", "staging"),
    Ins("checkout", "main"),
    Ins("exit", "") >>

HotfixStartProgram == <<
    Ins("guardName", ""),
    Ins("guardClean", ""),
    Ins("fetch", ""),
    Ins("guardExists", "production"),
    Ins("checkout", "production"),
    Ins("pull", "production"),
    Ins("checkoutNew", "@new"),
    Ins("exit", "") >>

HotfixFinishProgram == <<
    Ins("guardKind", ""),
    Ins("guardMessage", ""),
    Ins("guardHotfixBranch", ""),
    Ins("guardClean", ""),
    Ins("quality", ""),
    Ins("writeManifest", ""),
    Ins("writeChangelog", ""),
    Ins("fix", ""),
    Ins("addAll", ""),
    Ins("commit", ""),
    Ins("fetch", ""),
    Ins("checkout", "production"),
    Ins("pull", "production"),
    Ins("mergeNoFF", "@cur"),
    Ins("push", "production"),
    Ins("checkout", "staging"),
    Ins("pull", "staging"),
    Ins("mergeNoFF", "production"),
    Ins("push", "staging"),
    Ins("checkout", "main"),
    Ins("pull", "main"),
    Ins("mergeNoFF", "staging"),
    Ins("push", "main"),
    Ins("deleteLocal", "@cur"),
    Ins("deleteRemote", "@cur"),
    Ins("exit", "") >>

\* The changeset-based flow-release (bin/flow-release.ts).
ChangesetReleaseProgram == <<
    Ins("guardKind", ""),
    Ins("statusNote", ""),
    Ins("writeChangeset", ""),
    Ins("changesetVersion", ""),
    Ins("install", ""),
    Ins("addAll", ""),
    Ins("commit", ""),
    Ins("readBranch", ""),
    Ins("push", "@cur"),
    Ins("exit", "") >>

\* flow-hotfix with a subcommand that is neither start nor finish.
HotfixUsageProgram == <<Ins("usage", "")>>

Program(c) ==
    CASE c = "release" -> ReleaseProgram
      [] c = "hotfix" -> HotfixUsageProgram
      [] c = "changeset" -> ChangesetReleaseProgram
      [] c = "ship" -> ShipProgram
      [] c = "hotfixStart" -> HotfixStartProgram
      [] c = "hotfixFinish" -> HotfixFinishProgram
      [] OTHER -> <<>>

CurIns == Program(cmd)[pc]
At(op) == phase = "running" /\ CurIns.op = op

\* The branch an instruction names.
Arg(a) ==
    IF a = "@cur" THEN curBranch
    ELSE IF a = "@new" THEN HotfixBranch(name)
    ELSE a

----------------------------------------------------------------------------
(* Initial state and the start of a run.                                   *)

InitialVersion == "1.0.0"

\* package.json of this repository, abridged: its members in file order.
PackageJson ==
    <<[key |-> "name", value |-> "@regardio/dev"],
      [key |-> "version", value |-> InitialVersion]>>

NoPre == [ncommits |-> 0]

\* No run was killed.
NoRun == [cmd |-> "", bumped |-> FALSE]

Snapshot ==
    [local |-> local, tracking |-> tracking, origin |-> origin, head |-> head,
     version |-> wtVersion, changelog |-> wtChangelog, tree |-> tree,
     ncommits |-> Len(commits), after |-> lastDone]

\* The branches a repository has after "Branch Setup", done in full, in part
\* or not at all: git checkout -b <b> && git push -u origin <b>.
SetupRefs(created) == [b \in Branches |-> IF b \in created THEN 1 ELSE NoCommit]
Setups == {{"main"}, {"main", "staging"}, {"main", "production"}, Pipeline}

\* A repository with one commit, pushed, and no CHANGELOG.md yet.
Init ==
    /\ commits = <<[parents |-> {}, version |-> InitialVersion,
                    changelog |-> NoFile, subject |-> "feat: initial"]>>
    /\ \E created \in Setups :
          /\ local = SetupRefs(created)
          /\ tracking = SetupRefs(created)
          /\ origin = SetupRefs(created)
    /\ head = "main"
    /\ wtVersion = InitialVersion
    /\ wtFields = PackageJson
    /\ wtChangelog = NoFile
    /\ tree = "clean"
    /\ phase = "idle"
    /\ cmd = "none"
    /\ subcommand = ""
    /\ pc = 0
    /\ kind = ""
    /\ name = ""
    /\ message = ""
    /\ curBranch = ""
    /\ exitCode = -1
    /\ cause = ""
    /\ gatePassed = FALSE
    /\ fixOutcome = ""
    /\ lastDone = ""
    /\ verCommit = NoCommit
    /\ pre = NoPre
    /\ priorOk = (local["staging"] # NoCommit /\ local["production"] # NoCommit)
    /\ priorDone = (local["staging"] # NoCommit /\ local["production"] # NoCommit)
    /\ interrupted = NoRun
    /\ events = 0
    /\ calls = <<>>

ShipKinds == {"patch", "minor", "major"}
HotfixKinds == {"patch", "minor"}
\* Command lines tried: the valid kinds, an unknown kind and no argument.
KindArgs == ShipKinds \cup {"glorb", ""}
NameArgs == {"a", ""}
MessageArgs == {"Fix token expiry", ""}

Start(c, k, n, m) ==
    /\ phase = "idle"
    /\ events < MaxEvents
    /\ events' = events + 1
    /\ phase' = "running"
    /\ cmd' = c
    /\ pc' = 1
    /\ kind' = k
    /\ name' = n
    /\ message' = m
    /\ curBranch' = ""
    /\ exitCode' = -1
    /\ cause' = ""
    /\ gatePassed' = FALSE
    /\ fixOutcome' = ""
    /\ verCommit' = NoCommit
    /\ pre' = Snapshot
    /\ lastDone' = ""
    /\ UNCHANGED <<repoVars, priorOk, priorDone, interrupted, calls>>

\* Subcommands tried besides start and finish: an unknown one and none.
UnknownSubcommands == {"status", ""}

StartRelease == \E m \in MessageArgs : Start("release", "", "", m) /\ subcommand' = ""
StartShip == \E k \in KindArgs : Start("ship", k, "", "") /\ subcommand' = ""
StartHotfixStart ==
    \E n \in NameArgs : Start("hotfixStart", "", n, "") /\ subcommand' = "start"
StartHotfixFinish ==
    \E k \in KindArgs, m \in MessageArgs :
       Start("hotfixFinish", k, "", m) /\ subcommand' = "finish"
StartChangesetRelease ==
    \E k \in KindArgs : Start("changeset", k, "", "") /\ subcommand' = ""
StartHotfixUnknown ==
    \E sc \in UnknownSubcommands : Start("hotfix", "", "", "") /\ subcommand' = sc

\* The process has exited; the operator is back at the prompt.
Finish ==
    /\ phase = "exited"
    /\ phase' = "idle"
    /\ cmd' = "none"
    /\ subcommand' = ""
    /\ pc' = 0
    /\ kind' = ""
    /\ name' = ""
    /\ message' = ""
    /\ curBranch' = ""
    /\ exitCode' = -1
    /\ cause' = ""
    /\ gatePassed' = FALSE
    /\ fixOutcome' = ""
    /\ verCommit' = NoCommit
    /\ pre' = NoPre
    /\ priorOk' = (priorOk /\ cause = "done" /\ cmd # "changeset")
    /\ priorDone' = (priorDone /\ cause = "done")
    /\ interrupted' = (IF cause = "killed"
                       THEN [cmd |-> cmd, bumped |-> verCommit # NoCommit]
                       ELSE NoRun)
    /\ lastDone' = (IF cause = "done" THEN cmd ELSE "")
    /\ UNCHANGED <<repoVars, events, calls>>

----------------------------------------------------------------------------
(* How an instruction ends.                                                *)

\* Only the manifest write changes the members of package.json other than its
\* version.
StaticRun ==
    UNCHANGED <<cmd, subcommand, kind, name, message, pre, priorOk, priorDone, lastDone,
                interrupted, calls, wtFields>>
Static == StaticRun /\ UNCHANGED events

Continue == pc' = pc + 1 /\ UNCHANGED <<phase, exitCode, cause>>

\* A canonical array index: an object lists such keys before all others, in
\* ascending numeric order, whatever the order they were added in.
IsArrayIndex(key) == IsDigits(key) /\ (key = "0" \/ CharAt(key, 1) # "0")

\* Variant of the assignment that moves an existing property to the end.
SetPropertyLast(obj, key, value) ==
    Append(SelectSeq(obj, LAMBDA f : f.key # key), [key |-> key, value |-> value])

\* obj[key] = value on an object given as its properties in enumeration
\* order: an existing property keeps its place, a new array index goes among
\* the indices, any other new key goes last.
SetProperty(obj, key, value) ==
    IF \E i \in 1..Len(obj) : obj[i].key = key
    THEN [i \in 1..Len(obj) |->
             IF obj[i].key = key THEN [key |-> key, value |-> value] ELSE obj[i]]
    ELSE IF IsArrayIndex(key)
    THEN LET before == Cardinality({i \in 1..Len(obj) :
                           /\ IsArrayIndex(obj[i].key)
                           /\ ParseDigits(obj[i].key) < ParseDigits(key)})
         IN  SubSeq(obj, 1, before) \o <<[key |-> key, value |-> value]>>
             \o SubSeq(obj, before + 1, Len(obj))
    ELSE Append(obj, [key |-> key, value |-> value])

RECURSIVE JSONParse(_)
\* JSON.parse of an object text given as its members in file order: members
\* are assigned one after the other, so a repeated key keeps its last value.
JSONParse(members) ==
    IF members = <<>> THEN <<>>
    ELSE SetProperty(JSONParse(SubSeq(members, 1, Len(members) - 1)),
                     members[Len(members)].key, members[Len(members)].value)

\* package.json of the working tree, parsed.
packageJson ==
    JSONParse([i \in 1..Len(wtFields) |->
                  IF wtFields[i].key = "version"
                  THEN [key |-> "version", value |-> wtVersion] ELSE wtFields[i]])

\* process.exit(code), or an uncaught exception (exit code 1).
Exit(code, why) ==
    phase' = "exited" /\ exitCode' = code /\ cause' = why /\ UNCHANGED pc

\* A command that talks to origin fails (no connection, timeout).
NetworkFailure ==
    /\ events < MaxEvents
    /\ events' = events + 1
    /\ Exit(1, "network")
    /\ UNCHANGED <<repoVars, curBranch, gatePassed, fixOutcome, verCommit>>
    /\ StaticRun

\* The process is killed (SIGKILL, exit status 137) between two of its steps:
\* every execSync has returned, so the repository is as the last step left it.
Kill ==
    /\ phase = "running"
    /\ events < MaxEvents
    /\ events' = events + 1
    /\ Exit(137, "killed")
    /\ UNCHANGED <<repoVars, curBranch, gatePassed, fixOutcome, verCommit>>
    /\ StaticRun

----------------------------------------------------------------------------
(* Guards.                                                                 *)

\* Requires a prior fetch to have up-to-date remote refs.
branchExists(b) == local[b] # NoCommit \/ tracking[b] # NoCommit

\* git status --porcelain prints something.
StatusDirty == tree # "clean"

\* Variant of a guard that reports its refusal with exit status 0.
GuardQuiet(ok) ==
    /\ IF ok THEN Continue ELSE Exit(0, "guard")
    /\ UNCHANGED <<repoVars, curBranch, gatePassed, fixOutcome, verCommit>>
    /\ Static

Guard(ok) ==
    /\ IF ok THEN Continue ELSE Exit(1, "guard")
    /\ UNCHANGED <<repoVars, curBranch, gatePassed, fixOutcome, verCommit>>
    /\ Static

Usage(ok) ==
    /\ IF ok THEN Continue ELSE Exit(1, "usage")
    /\ UNCHANGED <<repoVars, curBranch, gatePassed, fixOutcome, verCommit>>
    /\ Static

\* Variant of the accepted bump types that lets a hotfix take any bump.
AnyKinds(c) == ShipKinds

AllowedKinds(c) == IF c \in {"ship", "changeset"} THEN ShipKinds ELSE HotfixKinds

\* Neither subcommand matched: print the usage and exit 1.
UsageExit == At("usage") /\ Usage(FALSE)

GuardKind == At("guardKind") /\ Usage(kind # "" /\ kind \in AllowedKinds(cmd))
GuardName == At("guardName") /\ Usage(name # "")
GuardMessage == At("guardMessage") /\ Usage(message # "")
\* Variant of the branch guard that lets any checked-out branch through.
GuardBranchLenient == At("guardBranch") /\ Guard(TRUE)
GuardBranch == At("guardBranch") /\ Guard(head = CurIns.a)
GuardClean == At("guardClean") /\ Guard(~StatusDirty)
GuardExists == At("guardExists") /\ Guard(branchExists(CurIns.a))

GuardHotfixBranch ==
    /\ At("guardHotfixBranch")
    /\ curBranch' = head
    /\ IF head \in HotfixBranches THEN Continue ELSE Exit(1, "guard")
    /\ UNCHANGED <<repoVars, gatePassed, fixOutcome, verCommit>>
    /\ Static

\* git log origin/production..origin/staging --oneline
\* Variant of the ahead guard that lets an empty range through.
GuardAheadLenient == At("guardAhead") /\ Guard(TRUE)

GuardAhead ==
    /\ At("guardAhead")
    /\ IF tracking["production"] = NoCommit \/ tracking["staging"] = NoCommit
       THEN Exit(1, "git")
       ELSE IF LogRange(tracking["production"], tracking["staging"]) = <<>>
            THEN Exit(1, "guard")
            ELSE Continue
    /\ UNCHANGED <<repoVars, curBranch, gatePassed, fixOutcome, verCommit>>
    /\ Static

\* confirm(): true iff the trimmed, lower-cased line is "y".
Answers == {"y", "Y", "n", "", "yes", " y "}
LowerCase(line) == IF line = "Y" THEN "y" ELSE line
\* Variant of confirm that takes any answer beginning with y or Y as a yes.
confirmLoose(line) == Len(Trim(line)) > 0 /\ LowerCase(CharAt(Trim(line), 1)) = "y"

confirm(line) == LowerCase(Trim(line)) = "y"

Confirm ==
    /\ At("confirm")
    /\ \E line \in Answers :
          IF confirm(line) THEN Continue ELSE Exit(0, "declined")
    /\ UNCHANGED <<repoVars, curBranch, gatePassed, fixOutcome, verCommit>>
    /\ Static

----------------------------------------------------------------------------
(* Git commands.                                                           *)

Files(c) == [version |-> commits[c].version, changelog |-> commits[c].changelog]

NewCommit(parents, version, changelog, subject) ==
    [parents |-> parents, version |-> version, changelog |-> changelog,
     subject |-> subject]

\* The outcome of fast-forwarding the checked-out branch to target.
FastForward(target) ==
    IF IsAncestor(target, local[head]) THEN "up to date"
    ELSE IF IsAncestor(local[head], target) THEN "forward"
    ELSE "refused"

\* Move the checked-out branch and the working tree to target.
MoveHead(target) ==
    /\ local' = [local EXCEPT ![head] = target]
    /\ wtVersion' = commits[target].version
    /\ wtChangelog' = commits[target].changelog

\* git fetch origin: every branch of origin updates its remote-tracking ref.
Fetch ==
    /\ At("fetch")
    /\ \/ NetworkFailure
       \/ /\ tracking' = [b \in Branches |->
                            IF origin[b] # NoCommit THEN origin[b] ELSE tracking[b]]
          /\ Continue
          /\ UNCHANGED <<commits, local, origin, head, wtVersion, wtChangelog, tree,
                         curBranch, gatePassed, fixOutcome, verCommit>>
          /\ Static

\* git checkout <b>: a branch that exists only as origin/<b> is created from it.
CanCheckout(b) ==
    tree = "clean" /\ (local[b] # NoCommit \/ tracking[b] # NoCommit)

DoCheckout(b) ==
    LET target == IF local[b] # NoCommit THEN local[b] ELSE tracking[b] IN
    /\ local' = [local EXCEPT ![b] = target]
    /\ head' = b
    /\ wtVersion' = commits[target].version
    /\ wtChangelog' = commits[target].changelog

Checkout ==
    /\ At("checkout")
    /\ IF CanCheckout(CurIns.a)
       THEN DoCheckout(CurIns.a) /\ Continue
       ELSE Exit(1, "git") /\ UNCHANGED <<local, head, wtVersion, wtChangelog>>
    /\ UNCHANGED <<commits, tracking, origin, tree, curBranch, gatePassed,
                   fixOutcome, verCommit>>
    /\ Static

\* git checkout -b <b>
CheckoutNew ==
    /\ At("checkoutNew")
    /\ IF local[Arg(CurIns.a)] = NoCommit
       THEN /\ local' = [local EXCEPT ![Arg(CurIns.a)] = local[head]]
            /\ head' = Arg(CurIns.a)
            /\ Continue
       ELSE Exit(1, "git") /\ UNCHANGED <<local, head>>
    /\ UNCHANGED <<commits, tracking, origin, wtVersion, wtChangelog, tree, curBranch,
                   gatePassed, fixOutcome, verCommit>>
    /\ Static

\* git pull --ff-only origin <b>
Pull ==
    /\ At("pull")
    /\ \/ NetworkFailure
       \/ /\ IF origin[CurIns.a] = NoCommit
             THEN Exit(1, "git") /\ UNCHANGED <<local, tracking, wtVersion, wtChangelog>>
             ELSE /\ tracking' = [tracking EXCEPT ![CurIns.a] = origin[CurIns.a]]
                  /\ CASE FastForward(origin[CurIns.a]) = "forward" ->
                            MoveHead(origin[CurIns.a]) /\ Continue
                       [] FastForward(origin[CurIns.a]) = "up to date" ->
                            Continue /\ UNCHANGED <<local, wtVersion, wtChangelog>>
                       [] OTHER ->
                            Exit(1, "git") /\ UNCHANGED <<local, wtVersion, wtChangelog>>
          /\ UNCHANGED <<commits, origin, head, tree, curBranch, gatePassed,
                         fixOutcome, verCommit>>
          /\ Static

\* git merge --ff-only <b>
MergeFF ==
    /\ At("mergeFF")
    /\ CASE local[CurIns.a] # NoCommit /\ FastForward(local[CurIns.a]) = "forward" ->
              MoveHead(local[CurIns.a]) /\ Continue
         [] local[CurIns.a] # NoCommit /\ FastForward(local[CurIns.a]) = "up to date" ->
              Continue /\ UNCHANGED <<local, wtVersion, wtChangelog>>
         [] OTHER ->
              Exit(1, "git") /\ UNCHANGED <<local, wtVersion, wtChangelog>>
    /\ UNCHANGED <<commits, tracking, origin, head, tree, curBranch, gatePassed,
                   fixOutcome, verCommit>>
    /\ Static

\* Variant of the merge that fast-forwards when it can (git merge <b>).
MergeFastForwarding ==
    /\ At("mergeNoFF")
    /\ LET theirs == local[Arg(CurIns.a)]
           ours == local[head]
           base == MergeBase(ours, theirs)
           version == MergeFile(commits[base].version, commits[ours].version,
                                commits[theirs].version)
           changelog == MergeFile(commits[base].changelog, commits[ours].changelog,
                                  commits[theirs].changelog)
       IN
       CASE theirs = NoCommit ->
              Exit(1, "git") /\ UNCHANGED <<commits, local, wtVersion, wtChangelog, tree>>
         [] theirs # NoCommit /\ IsAncestor(theirs, ours) ->
              Continue /\ UNCHANGED <<commits, local, wtVersion, wtChangelog, tree>>
         [] theirs # NoCommit /\ ~IsAncestor(theirs, ours) /\ IsAncestor(ours, theirs) ->
              /\ local' = [local EXCEPT ![head] = theirs]
              /\ wtVersion' = commits[theirs].version
              /\ wtChangelog' = commits[theirs].changelog
              /\ Continue
              /\ UNCHANGED <<commits, tree>>
         [] theirs # NoCommit /\ ~IsAncestor(theirs, ours) /\ ~IsAncestor(ours, theirs)
              /\ (version = Conflict \/ changelog = Conflict) ->
              /\ Exit(1, "git")
              /\ tree' = "dirty"
              /\ UNCHANGED <<commits, local, wtVersion, wtChangelog>>
         [] OTHER ->
              /\ commits' = Append(commits, NewCommit({ours, theirs}, version, changelog,
                     "chore(hotfix): merge " \o Arg(CurIns.a) \o " into " \o head))
              /\ local' = [local EXCEPT ![head] = Len(commits) + 1]
              /\ wtVersion' = version
              /\ wtChangelog' = changelog
              /\ Continue
              /\ UNCHANGED tree
    /\ UNCHANGED <<tracking, origin, head, curBranch, gatePassed, fixOutcome, verCommit>>
    /\ Static

\* git merge --no-ff <b> -m <message>
MergeNoFF ==
    /\ At("mergeNoFF")
    /\ LET theirs == local[Arg(CurIns.a)]
           ours == local[head]
           base == MergeBase(ours, theirs)
           version == MergeFile(commits[base].version, commits[ours].version,
                                commits[theirs].version)
           changelog == MergeFile(commits[base].changelog, commits[ours].changelog,
                                  commits[theirs].changelog)
       IN
       CASE theirs = NoCommit ->
              Exit(1, "git") /\ UNCHANGED <<commits, local, wtVersion, wtChangelog, tree>>
         [] theirs # NoCommit /\ IsAncestor(theirs, ours) ->
              Continue /\ UNCHANGED <<commits, local, wtVersion, wtChangelog, tree>>
         [] theirs # NoCommit /\ ~IsAncestor(theirs, ours)
              /\ (version = Conflict \/ changelog = Conflict) ->
              /\ Exit(1, "git")
              /\ tree' = "dirty"
              /\ UNCHANGED <<commits, local, wtVersion, wtChangelog>>
         [] OTHER ->
              /\ commits' = Append(commits, NewCommit({ours, theirs}, version, changelog,
                     "chore(hotfix): merge " \o Arg(CurIns.a) \o " into " \o head))
              /\ local' = [local EXCEPT ![head] = Len(commits) + 1]
              /\ wtVersion' = version
              /\ wtChangelog' = changelog
              /\ Continue
              /\ UNCHANGED tree
    /\ UNCHANGED <<tracking, origin, head, curBranch, gatePassed, fixOutcome, verCommit>>
    /\ Static

\* git push origin <b>: rejected unless it fast-forwards origin's branch.
Push ==
    /\ At("push")
    /\ \/ NetworkFailure
       \/ /\ IF /\ local[Arg(CurIns.a)] # NoCommit
                /\ (origin[Arg(CurIns.a)] = NoCommit
                    \/ IsAncestor(origin[Arg(CurIns.a)], local[Arg(CurIns.a)]))
             THEN /\ origin' = [origin EXCEPT ![Arg(CurIns.a)] = local[Arg(CurIns.a)]]
                  /\ tracking' = [tracking EXCEPT ![Arg(CurIns.a)] = local[Arg(CurIns.a)]]
                  /\ Continue
             ELSE Exit(1, "git") /\ UNCHANGED <<origin, tracking>>
          /\ UNCHANGED <<commits, local, head, wtVersion, wtChangelog, tree, curBranch,
                         gatePassed, fixOutcome, verCommit>>
          /\ Static

\* git branch -d <b>: refused unless <b> is merged into HEAD.
DeleteLocal ==
    /\ At("deleteLocal")
    /\ IF Arg(CurIns.a) # head /\ IsAncestor(local[Arg(CurIns.a)], local[head])
       THEN local' = [local EXCEPT ![Arg(CurIns.a)] = NoCommit] /\ Continue
       ELSE Exit(1, "git") /\ UNCHANGED local
    /\ UNCHANGED <<commits, tracking, origin, head, wtVersion, wtChangelog, tree, curBranch,
                   gatePassed, fixOutcome, verCommit>>
    /\ Static

\* try { git push origin --delete <b> } catch {}
DeleteRemote ==
    /\ At("deleteRemote")
    /\ \/ /\ origin[Arg(CurIns.a)] # NoCommit
          /\ origin' = [origin EXCEPT ![Arg(CurIns.a)] = NoCommit]
          /\ tracking' = [tracking EXCEPT ![Arg(CurIns.a)] = NoCommit]
       \/ UNCHANGED <<origin, tracking>>
    /\ Continue
    /\ UNCHANGED <<commits, local, head, wtVersion, wtChangelog, tree, curBranch,
                   gatePassed, fixOutcome, verCommit>>
    /\ Static

----------------------------------------------------------------------------
(* Scripts, file writes and commits.                                       *)

QualityScripts == <<"build", "typecheck", "report">>

\* runQualityChecks returns iff each script exits zero; the first failing
\* runScript throws.  exits[i] is TRUE when script i exits zero.
\* Variant of the gate that runs every script whatever the earlier ones did.
ScriptsRunAll(exits) == QualityScripts

\* The scripts runQualityChecks runs, in order, when script i would exit
\* zero iff exits[i]: execSync throws at the first non-zero exit, which
\* ends runQualityChecks there.
ScriptsRun(exits) ==
    LET failing == {i \in 1..Len(QualityScripts) : ~exits[i]} IN
    IF failing = {} THEN QualityScripts
    ELSE SubSeq(QualityScripts, 1, CHOOSE i \in failing : \A k \in failing : i <= k)

runQualityChecks(exits) == \A i \in 1..Len(QualityScripts) : exits[i]

\* try { runQualityChecks() } catch { [git checkout <restore>;] process.exit(1) }
Quality ==
    /\ At("quality")
    /\ \E exits \in [1..Len(QualityScripts) -> BOOLEAN] :
          IF runQualityChecks(exits)
          THEN /\ gatePassed' = TRUE
               /\ UNCHANGED fixOutcome
               /\ Continue
               /\ UNCHANGED <<local, head, wtVersion, wtChangelog>>
          ELSE /\ UNCHANGED <<gatePassed, fixOutcome>>
               /\ Exit(1, "quality")
               /\ IF CurIns.a # "" /\ CanCheckout(CurIns.a)
                  THEN DoCheckout(CurIns.a)
                  ELSE UNCHANGED <<local, head, wtVersion, wtChangelog>>
    /\ UNCHANGED <<commits, tracking, origin, tree, curBranch, verCommit>>
    /\ Static

\* Read package.json, bump, write package.json.
WriteManifest ==
    /\ At("writeManifest")
    /\ IF IsError(bumpVersion(wtVersion, kind))
       THEN Exit(1, "error") /\ UNCHANGED <<wtVersion, wtFields, tree>>
       ELSE /\ wtVersion' = bumpVersion(wtVersion, kind)
            /\ wtFields' = SetProperty(packageJson, "version", bumpVersion(wtVersion, kind))
            /\ tree' = "dirty"
            /\ Continue
    /\ UNCHANGED <<commits, local, tracking, origin, head, wtChangelog, curBranch,
                   gatePassed, fixOutcome, verCommit>>
    /\ UNCHANGED <<cmd, subcommand, kind, name, message, pre, priorOk, priorDone, lastDone,
                   interrupted, calls, events>>

PackageName == "@regardio/dev"
Today == "2026-01-01"
MaxSubject == 98
KeptChars == 95

RECURSIVE Join(_, _)
Join(lines, sep) ==
    IF Len(lines) = 0 THEN ""
    ELSE IF Len(lines) = 1 THEN lines[1]
    ELSE lines[1] \o sep \o Join(Tail(lines), sep)

\* Variant of the bullet that cuts a long subject at the limit itself.
BulletCutAtLimit(c) ==
    "- " \o (IF Len(c) > MaxSubject THEN Slice(c, 0, MaxSubject) \o "..." ELSE c)

Bullet(c) == "- " \o (IF Len(c) > MaxSubject THEN Slice(c, 0, KeptChars) \o "..." ELSE c)

\* Variant of the log query without the lower end of the range: the
\* subjects of git log <to>.
ChangeLinesAll(from, to) ==
    LET log == Descending(Anc(to))
        subjects == [i \in 1..Len(log) |-> Trim(commits[log[i]].subject)]
    IN SelectSeq(subjects, LAMBDA x : Len(x) > 0)

\* The subjects of git log <from>..<to>, trimmed, blank ones dropped.
ChangeLines(from, to) ==
    LET log == LogRange(from, to)
        subjects == [i \in 1..Len(log) |-> Trim(commits[log[i]].subject)]
    IN SelectSeq(subjects, LAMBDA x : Len(x) > 0)

\* Variant of the body that is always the generic line.
ChangeBodyGeneric(from, to, bumpType) == bumpType \o " release"

ChangeBody(from, to, bumpType) ==
    LET changeLines == ChangeLines(from, to) IN
    IF Len(changeLines) > 0
    THEN Join([i \in 1..Len(changeLines) |-> Bullet(changeLines[i])], "\n")
    ELSE bumpType \o " release"

ShipEntry(newVersion, changeBody) ==
    "## [" \o newVersion \o "] - " \o Today \o "\n\n" \o changeBody \o "\n"

HotfixEntry(newVersion, text) ==
    "## [" \o newVersion \o "] - " \o Today \o " (hotfix)\n\n" \o text \o "\n"

\* flow-ship reads git log origin/production..HEAD, which throws when the
\* remote-tracking ref is missing; flow-hotfix finish uses the message.
WriteChangelog ==
    /\ At("writeChangelog")
    /\ IF cmd = "ship"
       THEN IF tracking["production"] = NoCommit
            THEN Exit(1, "git") /\ UNCHANGED wtChangelog
            ELSE /\ wtChangelog' = insertChangelog(wtChangelog,
                        ShipEntry(wtVersion,
                                  ChangeBody(tracking["production"], local[head], kind)))
                 /\ Continue
       ELSE /\ wtChangelog' = insertChangelog(wtChangelog, HotfixEntry(wtVersion, message))
            /\ Continue
    /\ UNCHANGED <<commits, local, tracking, origin, head, wtVersion, tree, curBranch,
                   gatePassed, fixOutcome, verCommit>>
    /\ Static

\* try { runScript('fix') } catch {}: the script may fail, change nothing,
\* or reformat files.
FixOutcomes == {"fails", "no change", "reformats"}

\* Variant of the fix step without the try/catch: a failing script ends the run.
FixFatal ==
    /\ At("fix")
    /\ \E outcome \in FixOutcomes :
          /\ tree' = IF outcome = "reformats" /\ tree = "clean" THEN "dirty" ELSE tree
          /\ fixOutcome' = outcome
          /\ IF outcome = "fails" THEN Exit(1, "error") ELSE Continue
    /\ UNCHANGED <<commits, local, tracking, origin, head, wtVersion, wtChangelog,
                   curBranch, gatePassed, verCommit>>
    /\ Static

Fix ==
    /\ At("fix")
    /\ \E outcome \in FixOutcomes :
          /\ tree' = IF outcome = "reformats" /\ tree = "clean" THEN "dirty" ELSE tree
          /\ fixOutcome' = outcome
    /\ Continue
    /\ UNCHANGED <<commits, local, tracking, origin, head, wtVersion, wtChangelog,
                   curBranch, gatePassed, verCommit>>
    /\ Static

\* git add -A
AddAll ==
    /\ At("addAll")
    /\ tree' = IF tree = "dirty" THEN "staged" ELSE tree
    /\ Continue
    /\ UNCHANGED <<commits, local, tracking, origin, head, wtVersion, wtChangelog,
                   curBranch, gatePassed, fixOutcome, verCommit>>
    /\ Static

\* Variant of the message without the default.
ReleaseMessageRaw == message

ReleaseMessage == IF message = "" THEN "auto-fix formatting" ELSE message

CommitSubject ==
    CASE cmd = "release" -> "chore(staging): " \o ReleaseMessage
      [] cmd = "ship" -> "chore(release): " \o PackageName \o "@" \o wtVersion
      [] cmd = "changeset" -> "chore(release): v" \o wtVersion
      [] OTHER -> "chore(hotfix): " \o PackageName \o "@" \o wtVersion

\* git commit -m <subject>: records the staged tree on the checked-out branch.
DoCommit(subject) ==
    /\ commits' = Append(commits, NewCommit({local[head]}, wtVersion, wtChangelog, subject))
    /\ local' = [local EXCEPT ![head] = Len(commits) + 1]
    /\ tree' = "clean"

\* git commit exits 1 when nothing is staged.
Commit ==
    /\ At("commit")
    /\ IF tree = "staged"
       THEN DoCommit(CommitSubject) /\ verCommit' = Len(commits) + 1 /\ Continue
       ELSE Exit(1, "git") /\ UNCHANGED <<commits, local, tree, verCommit>>
    /\ UNCHANGED <<tracking, origin, head, wtVersion, wtChangelog, curBranch,
                   gatePassed, fixOutcome>>
    /\ Static

\* Variant of the commit step of flow-release without the staged-changes
\* test: git commit exits 1 when nothing is staged.
CommitUnconditional ==
    /\ At("commitIfStaged")
    /\ IF tree = "staged"
       THEN DoCommit(CommitSubject) /\ Continue
       ELSE Exit(1, "git") /\ UNCHANGED <<commits, local, tree>>
    /\ UNCHANGED <<tracking, origin, head, wtVersion, wtChangelog, curBranch, gatePassed,
                   fixOutcome, verCommit>>
    /\ Static

\* if (hasStagedChanges) git commit
CommitIfStaged ==
    /\ At("commitIfStaged")
    /\ IF tree = "staged"
       THEN DoCommit(CommitSubject)
       ELSE UNCHANGED <<commits, local, tree>>
    /\ Continue
    /\ UNCHANGED <<tracking, origin, head, wtVersion, wtChangelog, curBranch, gatePassed, fixOutcome,
                   verCommit>>
    /\ Static

\* The changeset-based flow-release: the status query only prints a note
\* when there are uncommitted changes.
StatusNote ==
    /\ At("statusNote")
    /\ Continue
    /\ UNCHANGED <<repoVars, curBranch, gatePassed, fixOutcome, verCommit>>
    /\ Static

\* mkdirSync, writeFileSync of .changeset/release-<time>.md
WriteChangeset ==
    /\ At("writeChangeset")
    /\ tree' = IF tree = "clean" THEN "dirty" ELSE tree
    /\ Continue
    /\ UNCHANGED <<commits, local, tracking, origin, head, wtVersion, wtChangelog,
                   curBranch, gatePassed, fixOutcome, verCommit>>
    /\ Static

\* pnpm changeset version: an external tool that applies the bump to
\* package.json, or fails.
ChangesetVersion ==
    /\ At("changesetVersion")
    /\ \/ /\ ~IsError(bumpVersion(wtVersion, kind))
          /\ wtVersion' = bumpVersion(wtVersion, kind)
          /\ Continue
       \/ Exit(1, "error") /\ UNCHANGED wtVersion
    /\ UNCHANGED <<commits, local, tracking, origin, head, wtChangelog, tree,
                   curBranch, gatePassed, fixOutcome, verCommit>>
    /\ Static

\* pnpm install --ignore-workspace: needs the registry.
Install ==
    /\ At("install")
    /\ \/ NetworkFailure
       \/ /\ Continue
          /\ UNCHANGED <<repoVars, curBranch, gatePassed, fixOutcome, verCommit>>
          /\ Static

\* branch = git branch --show-current
ReadBranch ==
    /\ At("readBranch")
    /\ curBranch' = head
    /\ Continue
    /\ UNCHANGED <<repoVars, gatePassed, fixOutcome, verCommit>>
    /\ Static

\* The script ran to its end: exit code 0.
ExitOk ==
    /\ At("exit")
    /\ Exit(0, "done")
    /\ UNCHANGED <<repoVars, curBranch, gatePassed, fixOutcome, verCommit>>
    /\ Static

----------------------------------------------------------------------------
(* What happens between runs.                                              *)

IdleFrame ==
    /\ lastDone' = ""
    /\ interrupted' = NoRun
    /\ UNCHANGED <<phase, cmd, subcommand, pc, kind, name, message, curBranch,
                   exitCode, cause, gatePassed, fixOutcome, verCommit, pre, priorDone,
                   calls, wtFields>>

WorkSubject == "feat: work"
FixSubject == "fix: token expiry"
TeamSubject == "feat: teamwork"

\* The operator commits work on main or on a hotfix branch.
OperatorCommit ==
    /\ phase = "idle" /\ tree = "clean"
    /\ head \in {"main"} \cup HotfixBranches
    /\ events < MaxEvents
    /\ events' = events + 1
    /\ DoCommit(IF head = "main" THEN WorkSubject ELSE FixSubject)
    /\ priorOk' = (priorOk /\ head # "main")
    /\ UNCHANGED <<tracking, origin, head, wtVersion, wtChangelog>>
    /\ IdleFrame

\* The operator edits a file and leaves it uncommitted, or discards the edits.
OperatorEdit ==
    /\ phase = "idle"
    /\ \/ tree = "clean" /\ tree' = "dirty" /\ UNCHANGED <<wtVersion, wtChangelog>>
       \/ /\ tree # "clean" /\ tree' = "clean"
          /\ wtVersion' = commits[local[head]].version
          /\ wtChangelog' = commits[local[head]].changelog
    /\ UNCHANGED <<commits, local, tracking, origin, head, priorOk, events>>
    /\ IdleFrame

\* Another clone pushes a commit to origin/main.
TeamPush ==
    /\ phase = "idle"
    /\ events < MaxEvents
    /\ events' = events + 1
    /\ commits' = Append(commits,
           NewCommit({origin["main"]}, commits[origin["main"]].version,
                     commits[origin["main"]].changelog, TeamSubject))
    /\ origin' = [origin EXCEPT !["main"] = Len(commits) + 1]
    /\ priorOk' = FALSE
    /\ UNCHANGED <<local, tracking, head, wtVersion, wtChangelog, tree>>
    /\ IdleFrame

----------------------------------------------------------------------------

Next ==
    \/ StartRelease \/ StartShip \/ StartHotfixStart \/ StartHotfixFinish
    \/ StartHotfixUnknown \/ Finish
    \/ UsageExit \/ GuardKind \/ GuardName \/ GuardMessage \/ GuardBranch \/ GuardClean
    \/ GuardExists \/ GuardHotfixBranch \/ GuardAhead \/ Confirm
    \/ Fetch \/ Checkout \/ CheckoutNew \/ Pull \/ MergeFF \/ MergeNoFF \/ Push
    \/ DeleteLocal \/ DeleteRemote
    \/ Quality \/ WriteManifest \/ WriteChangelog \/ Fix \/ AddAll \/ Commit
    \/ CommitIfStaged \/ ExitOk
    \/ OperatorCommit \/ OperatorEdit \/ TeamPush

Spec == Init /\ [][Next]_vars

\* A repository released with the changeset-based flow-release: the operator
\* works on main and runs bin/flow-release.ts.
LegacyNext ==
    \/ StartChangesetRelease \/ Finish
    \/ GuardKind \/ StatusNote \/ WriteChangeset \/ ChangesetVersion \/ Install
    \/ AddAll \/ Commit \/ ReadBranch \/ Push \/ ExitOk
    \/ OperatorCommit \/ OperatorEdit \/ TeamPush

LegacySpec == Init /\ [][LegacyNext]_vars

\* The pipeline flows with processes that can be killed.
KillNext == Next \/ Kill

KillSpec == Init /\ [][KillNext]_vars

----------------------------------------------------------------------------
(* flow-ship on a repository whose staging is ahead of production by       *)
(* commits with all kinds of subject lines.                                *)

RECURSIVE Pad(_)
\* A string of n characters.
Pad(n) == IF n = 0 THEN "" ELSE "x" \o Pad(n - 1)

\* A subject line of the given length.
SubjectOfLength(n) == "feat: " \o Pad(n - 6)

\* Subject lines of the commits to ship: an ordinary one, an empty one (git
\* commit --allow-empty-message), and ones at and beyond the length limit.
Subjects ==
    {WorkSubject, "", SubjectOfLength(MaxSubject - 1), SubjectOfLength(MaxSubject),
     SubjectOfLength(MaxSubject + 1), SubjectOfLength(MaxSubject + 22)}

\* Commits released to staging and not yet shipped.
MaxAhead == 2

RECURSIVE Chain(_, _)
\* Commits 2..(Len(subjects) + 1), each on top of the one before.
Chain(subjects, first) ==
    IF subjects = <<>> THEN <<>>
    ELSE <<NewCommit({first - 1}, InitialVersion, NoFile, subjects[1])>>
         \o Chain(Tail(subjects), first + 1)

ShipLogInit ==
    /\ \E k \in 1..MaxAhead : \E subjects \in [1..k -> Subjects] :
          /\ commits = <<[parents |-> {}, version |-> InitialVersion,
                          changelog |-> NoFile, subject |-> "feat: initial"]>>
                       \o Chain(subjects, 2)
          /\ local = [b \in Branches |->
                         IF b \in {"main", "staging"} THEN k + 1
                         ELSE IF b = "production" THEN 1 ELSE NoCommit]
    /\ tracking = local
    /\ origin = local
    /\ head = "main"
    /\ wtVersion = InitialVersion
    /\ wtFields = PackageJson
    /\ wtChangelog = NoFile
    /\ tree = "clean"
    /\ phase = "idle"
    /\ cmd = "none"
    /\ subcommand = ""
    /\ pc = 0
    /\ kind = ""
    /\ name = ""
    /\ message = ""
    /\ curBranch = ""
    /\ exitCode = -1
    /\ cause = ""
    /\ gatePassed = FALSE
    /\ fixOutcome = ""
    /\ lastDone = ""
    /\ verCommit = NoCommit
    /\ pre = NoPre
    /\ priorOk = TRUE
    /\ priorDone = TRUE
    /\ interrupted = NoRun
    /\ events = 0
    /\ calls = <<>>

\* flow-ship is run once on the prepared repository.
ShipOnce == events = 0 /\ StartShip

ShipLogNext ==
    \/ ShipOnce \/ Finish
    \/ GuardKind \/ GuardBranch \/ GuardClean \/ GuardExists \/ GuardAhead \/ Confirm
    \/ Fetch \/ Checkout \/ Pull \/ MergeFF \/ Push
    \/ Quality \/ WriteManifest \/ WriteChangelog \/ Fix \/ AddAll \/ Commit \/ ExitOk

ShipLogSpec == ShipLogInit /\ [][ShipLogNext]_vars

----------------------------------------------------------------------------
(* The utils.ts functions called directly, as utils.test.ts calls them.    *)

\* Version strings tried: well-formed ones, with zero and multi-digit
\* components, and malformed ones.
Versions ==
    {"0.0.0", "1.2.3", "0.9.0", "9.9.9", "10.0.19", "01.2.3",
     "1.2", "1.2.3.4", "", "a.b.c", "1.x.3", "1.2.3-beta", "1..3", "..", "-1.2.3",
     "1.-2.3", "not-semver"}

\* Bump kinds tried: the three known ones and unrecognized strings.
Bumps == {"major", "minor", "patch", "glorb", ""}

\* CHANGELOG.md as the calls find it.
Docs ==
    {NoFile,
     "",
     "# Changelog\n",
     "# Changelog\n\nNotes.\n\n\n",
     "# Changelog\n\n## [1.0.0] - 2025-01-01\n\n- a\n",
     "# Changelog\n\nIntro.\n\n## [1.1.0] - 2025-02-01\n\n- b\n\n## [1.0.0] - 2025-01-01\n\n- a\n",
     "## [1.0.0] - 2025-01-01\n\n- a\n",
     "## [1.1.0] - 2025-02-01\n\n- b\n\n## [1.0.0] - 2025-01-01\n\n- a\n"}

\* Entries inserted.
Entries ==
    {"## [2.0.0] - 2026-01-01\n\n- x\n",
     "## [2.1.0] - 2026-01-02\n\n- y\n- z\n"}

\* Calls made in sequence on one CHANGELOG.md.
MaxCalls == 3

UtilsInit ==
    /\ \E doc \in Docs :
          /\ commits = <<[parents |-> {}, version |-> InitialVersion,
                          changelog |-> doc, subject |-> "feat: initial"]>>
          /\ wtChangelog = doc
    /\ local = SetupRefs(Pipeline)
    /\ tracking = SetupRefs(Pipeline)
    /\ origin = SetupRefs(Pipeline)
    /\ head = "main"
    /\ wtVersion = InitialVersion
    /\ wtFields = PackageJson
    /\ tree = "clean"
    /\ phase = "idle"
    /\ cmd = "none"
    /\ subcommand = ""
    /\ pc = 0
    /\ kind = ""
    /\ name = ""
    /\ message = ""
    /\ curBranch = ""
    /\ exitCode = -1
    /\ cause = ""
    /\ gatePassed = FALSE
    /\ fixOutcome = ""
    /\ lastDone = ""
    /\ verCommit = NoCommit
    /\ pre = NoPre
    /\ priorOk = TRUE
    /\ priorDone = TRUE
    /\ interrupted = NoRun
    /\ events = 0
    /\ calls = <<>>

Call(fn, args, out) == [fn |-> fn, args |-> args, out |-> out]

\* A call that touches no file.
PureCall(fn, args, out) ==
    /\ calls' = <<Call(fn, args, out)>>
    /\ UNCHANGED <<repoVars, runVars, events>>

\* bumpVersion on a version read from a manifest, or on the version the call
\* before returned.
CallBumpVersion ==
    /\ Len(calls) < MaxCalls
    /\ \A i \in 1..Len(calls) : calls[i].fn = "bumpVersion" /\ ~IsError(calls[i].out)
    /\ \E current \in (IF calls = <<>> THEN Versions ELSE {calls[Len(calls)].out}),
          bump \in Bumps :
          calls' = Append(calls, Call("bumpVersion", <<current, bump>>,
                                      bumpVersion(current, bump)))
    /\ UNCHANGED <<repoVars, runVars, events>>

CallInsertChangelog ==
    /\ Len(calls) < MaxCalls
    /\ \A i \in 1..Len(calls) : calls[i].fn = "insertChangelog"
    /\ \E entry \in Entries :
          /\ wtChangelog' = insertChangelog(wtChangelog, entry)
          /\ calls' = Append(calls, Call("insertChangelog", <<wtChangelog, entry>>,
                                         insertChangelog(wtChangelog, entry)))
    /\ tree' = "dirty"
    /\ UNCHANGED <<commits, local, tracking, origin, head, wtVersion, wtFields, runVars,
                   events>>

\* Prompt texts passed to confirm.
Prompts == {"Continue?", "Ship it?"}

\* What confirm writes to stdout before it reads.
PromptLine(promptText) == promptText \o " (y/N) "

\* confirm(promptText, inputSource): the prompt written, the number of lines
\* read and the value returned.
CallConfirm ==
    /\ calls = <<>>
    /\ \E promptText \in Prompts, line \in Answers :
          PureCall("confirm", <<promptText, line>>,
                   [written |-> PromptLine(promptText), reads |-> 1,
                    result |-> confirm(line)])

\* runQualityChecks(): the scripts run and whether it returned normally.
CallRunQualityChecks ==
    /\ calls = <<>>
    /\ \E exits \in [1..Len(QualityScripts) -> BOOLEAN] :
          PureCall("runQualityChecks", exits,
                   [ran |-> ScriptsRun(exits), returned |-> runQualityChecks(exits)])

UtilsNext ==
    \/ CallBumpVersion
    \/ CallInsertChangelog
    \/ CallConfirm
    \/ CallRunQualityChecks

UtilsSpec == UtilsInit /\ [][UtilsNext]_vars

----------------------------------------------------------------------------
(* Properties of the flows.                                                *)

Exited == phase = "exited"

\* flow-release, flow-ship and the two flow-hotfix subcommands.
PipelineFlows == {"release", "ship", "hotfixStart", "hotfixFinish"}

\* Index of the first instruction of a program with the given op.
FirstOp(prog, op) == CHOOSE i \in 1..Len(prog) : prog[i].op = op /\ \A j \in 1..(i - 1) : prog[j].op # op

PreFilesKept == wtVersion = pre.version /\ wtChangelog = pre.changelog

\* The version commit's parent: the staging tip the version was bumped from.
BumpedFrom == CHOOSE p \in commits[verCommit].parents : TRUE

\* At the start of the run main was checked out, clean and not behind
\* origin/main, origin/main held everything released to staging, and staging
\* was strictly ahead of production, locally and on origin.
ShipStartsReady ==
    /\ pre.head = "main" /\ pre.tree = "clean"
    /\ pre.origin["main"] \in Anc(pre.local["main"])
    /\ pre.origin["staging"] \in Anc(pre.origin["main"])
    /\ kind \in ShipKinds
    /\ pre.origin["staging"] # pre.origin["production"]
    /\ pre.origin["production"] # NoCommit
    /\ pre.origin["production"] \in Anc(pre.origin["staging"])
    /\ pre.local["staging"] = pre.origin["staging"]
    /\ pre.local["production"] = pre.origin["production"]

\* C1: a flow-ship run that starts on a clean main with staging strictly
\* ahead of production, is confirmed, passes the quality gate and meets no
\* network failure ends with production, staging and main, locally and on
\* origin, at one commit whose version is bump(old version, kind), and with
\* main checked out.
C1_ShipEndsPromoted ==
    (Exited /\ cmd = "ship" /\ ShipStartsReady /\ gatePassed /\ cause # "network")
    => /\ cause = "done"
       /\ head = "main"
       /\ verCommit # NoCommit
       /\ \A b \in Pipeline : local[b] = verCommit /\ origin[b] = verCommit
       /\ commits[verCommit].version = bumpVersion(commits[BumpedFrom].version, kind)

\* C2: an aborted flow-ship run never exits with origin/production at the
\* new version commit while main or staging, locally or on origin, lacks it.
C2_NoHalfPromotion ==
    (Exited /\ cmd = "ship" /\ exitCode # 0 /\ verCommit # NoCommit
     /\ origin["production"] = verCommit)
    => \A b \in {"main", "staging"} :
          verCommit \in Anc(local[b]) /\ verCommit \in Anc(origin[b])

\* C3: when every earlier run completed and main received no direct commit,
\* no fast-forward-only merge or pull of flow-release or flow-ship fails.
C3_FastForwardsSucceed ==
    (Exited /\ priorOk /\ cmd \in {"release", "ship"})
    => ~(cause = "git" /\ CurIns.op \in {"mergeFF", "pull"})

\* A step of a run that writes the manifest or the changelog, commits,
\* merges into the checked-out branch or pushes.
Mutates ==
    \/ Len(commits') > Len(commits)
    \/ origin' # origin
    \/ CurIns.op \in {"mergeFF", "mergeNoFF"} /\ local' # local
    \/ /\ wtVersion' # wtVersion \/ wtChangelog' # wtChangelog
       /\ head' = head /\ local' = local

\* C4: in flow-release, flow-ship and flow-hotfix finish no manifest write,
\* changelog write, commit, merge or push happens before the quality gate
\* returned in the same run, and a run whose gate fails exits 1 with no new
\* commit and nothing pushed.
C4_GateBeforeMutation ==
    /\ [][(phase = "running" /\ cmd \in {"release", "ship", "hotfixFinish"} /\ Mutates)
           => gatePassed]_vars
    /\ [](Exited /\ cause = "quality"
           => exitCode = 1 /\ Len(commits) = pre.ncommits /\ origin = pre.origin)

C4_Witness ==
    /\ Exited /\ cmd = "ship" /\ cause = "done" /\ gatePassed
    /\ origin["production"] = verCommit /\ origin # pre.origin

\* C5 as claimed: a guard failure exits non-zero and no local ref,
\* remote-tracking ref, checked-out branch, working-tree file or remote
\* branch differs from its value before the run.
C5_GuardFailureNoEffect ==
    (Exited /\ cause = "guard")
    => /\ exitCode # 0
       /\ local = pre.local /\ tracking = pre.tracking /\ origin = pre.origin
       /\ head = pre.head /\ tree = pre.tree /\ PreFilesKept

\* C5 as amended: a guard failure exits 1 with no commit created, no remote
\* branch, checked-out branch or uncommitted change altered; the only effects
\* are those of the sync steps before the guard: the fetch may move
\* remote-tracking refs to origin's branches, and flow-release's
\* fast-forward pull may move local main (and the working tree) to
\* origin/main.
C5_GuardFailureOnlySyncs ==
    (Exited /\ cause = "guard")
    => /\ exitCode = 1
       /\ Len(commits) = pre.ncommits
       /\ origin = pre.origin /\ head = pre.head /\ tree = pre.tree
       /\ \A b \in Branches : tracking[b] \in {pre.tracking[b], origin[b]}
       /\ \A b \in Branches \ {"main"} : local[b] = pre.local[b]
       /\ IF cmd = "release" /\ local["main"] # pre.local["main"]
          THEN /\ local["main"] = origin["main"]
               /\ wtVersion = commits[local["main"]].version
               /\ wtChangelog = commits[local["main"]].changelog
          ELSE local = pre.local /\ PreFilesKept

C5_Witness ==
    /\ Exited /\ cause = "guard" /\ cmd = "release"
    /\ local["main"] # pre.local["main"] /\ tracking # pre.tracking

\* C6: flow-ship started on a branch other than main exits 1 at a guard
\* before any fetch and leaves package.json, CHANGELOG.md and every local and
\* remote-tracking ref as they were.
C6_ShipOffMainRefused ==
    (Exited /\ cmd = "ship" /\ pre.head # "main")
    => /\ exitCode = 1
       /\ cause \in {"usage", "guard"}
       /\ pc < FirstOp(ShipProgram, "fetch")
       /\ PreFilesKept /\ tree = pre.tree /\ head = pre.head
       /\ local = pre.local /\ tracking = pre.tracking /\ origin = pre.origin

C6_Witness ==
    /\ Exited /\ cmd = "ship" /\ pre.head # "main" /\ cause = "guard"
    /\ tracking["main"] # origin["main"]

\* C7: a declined flow-ship run exits 0 with the manifest version, the
\* changelog, the checked-out branch and the tips of main, staging and
\* production (local and on origin) as they were before the run.
C7_DeclineChangesNothing ==
    (Exited /\ cmd = "ship" /\ cause = "declined")
    => /\ exitCode = 0
       /\ PreFilesKept /\ tree = pre.tree /\ head = pre.head
       /\ Len(commits) = pre.ncommits
       /\ \A b \in Pipeline : local[b] = pre.local[b] /\ origin[b] = pre.origin[b]

C7_Witness ==
    /\ Exited /\ cmd = "ship" /\ cause = "declined"
    /\ tracking # pre.tracking

\* C8: a flow-ship run that fails in its switch-and-validate step (checkout
\* staging, fast-forward pull of staging, quality gate) never exits with
\* staging checked out.
C8_FailureReturnsToMain ==
    (/\ Exited /\ cmd = "ship" /\ exitCode # 0
     /\ pc > FirstOp(ShipProgram, "confirm")
     /\ pc <= FirstOp(ShipProgram, "quality"))
    => head # "staging"

\* C9 as claimed: after a completed run of any flow command main is checked
\* out.
C9_AlwaysBackOnMain ==
    (Exited /\ cause = "done" /\ cmd \in PipelineFlows) => head = "main"

\* C9 as amended: after a completed flow-release, flow-ship or flow-hotfix
\* finish main is checked out; after a completed flow-hotfix start the new
\* branch hotfix/<name> is checked out.
C9_BackOnMainExceptStart ==
    (Exited /\ cause = "done" /\ cmd \in PipelineFlows)
    => IF cmd = "hotfixStart" THEN head = HotfixBranch(name) ELSE head = "main"

C9_Witness == Exited /\ cause = "done" /\ cmd = "hotfixFinish" /\ head = "main"

\* C10: after a completed flow-release run main is checked out and local
\* staging, local main, origin/staging and origin/main are one commit.
C10_ReleaseEndsSynced ==
    (Exited /\ cmd = "release" /\ cause = "done")
    => /\ head = "main"
       /\ local["staging"] = local["main"]
       /\ origin["staging"] = local["main"]
       /\ origin["main"] = local["main"]

\* The working-tree manifest and changelog are those of the commit checked out.
FilesOfHead(l, h, v, c) == v = commits[l[h]].version /\ c = commits[l[h]].changelog

\* C11: no step of flow-release or flow-hotfix start writes the manifest
\* version or the changelog: the working-tree files change only by checking
\* out an existing commit (checkout, fast-forward pull or merge), and every
\* commit such a run creates carries the version and changelog of its parent.
C11_NoVersionAssigned ==
    [][(phase = "running" /\ cmd \in {"release", "hotfixStart"})
       => /\ (wtVersion' # wtVersion \/ wtChangelog' # wtChangelog)
               => /\ commits' = commits
                  /\ FilesOfHead(local', head', wtVersion', wtChangelog')
          /\ \A c \in (Len(commits) + 1)..Len(commits') : \A p \in commits'[c].parents :
                /\ commits'[c].version = commits[p].version
                /\ commits'[c].changelog = commits[p].changelog]_vars

C11_Witness ==
    /\ Exited /\ cmd = "release" /\ cause = "done"
    /\ Len(commits) > pre.ncommits
    /\ wtVersion = pre.version /\ wtVersion # InitialVersion

\* C12: a flow-release run started right after a completed flow-release,
\* whose quality checks pass again, whose fix step changes nothing and which
\* reaches origin, exits 0 having created no commit and leaves main and
\* staging, locally and on origin, where the first run left them.
C12_ReleaseIdempotent ==
    (/\ Exited /\ cmd = "release" /\ pre.after = "release"
     /\ cause \notin {"quality", "network"} /\ fixOutcome # "reformats")
    => /\ exitCode = 0 /\ cause = "done"
       /\ Len(commits) = pre.ncommits
       /\ head = "main"
       /\ \A b \in {"main", "staging"} :
             local[b] = pre.local[b] /\ origin[b] = pre.origin[b]

C12_Witness ==
    /\ Exited /\ cmd = "release" /\ pre.after = "release" /\ cause = "done"
    /\ fixOutcome # "reformats" /\ pre.ncommits > 1

\* C13: after a completed flow-hotfix finish main is checked out, the hotfix
\* version commit is reachable from production, staging and main, locally
\* and on origin, the manifest version at each of these tips is
\* bump(v, kind) for the version v the hotfix branch started with, and the
\* local hotfix branch is gone.
C13_HotfixFinishLands ==
    (Exited /\ cmd = "hotfixFinish" /\ cause = "done")
    => /\ head = "main"
       /\ pre.head \in HotfixBranches
       /\ verCommit # NoCommit
       /\ \A b \in Pipeline :
             /\ verCommit \in Anc(local[b]) /\ verCommit \in Anc(origin[b])
             /\ commits[local[b]].version = bumpVersion(pre.version, kind)
             /\ commits[origin[b]].version = bumpVersion(pre.version, kind)
       /\ local[pre.head] = NoCommit

C13_Witness ==
    /\ Exited /\ cmd = "hotfixFinish" /\ cause = "done"
    /\ verCommit # NoCommit /\ verCommit \in Anc(origin["main"])
    /\ commits[origin["main"]].version = bumpVersion(pre.version, kind)
    /\ pre.local["main"] # pre.local["production"]

\* C14: flow-hotfix start with a name, a clean tree, an existing production
\* branch and a reachable origin ends on a newly created hotfix/<name> at
\* production's tip; with a missing name, a dirty tree or a missing
\* production branch it exits 1 with no branch created and the checked-out
\* branch unchanged.
C14_HotfixStartCreatesBranch ==
    (Exited /\ cmd = "hotfixStart" /\ cause # "network")
    => IF /\ name # "" /\ pre.tree = "clean"
          /\ pre.local["production"] # NoCommit /\ pre.origin["production"] # NoCommit
       THEN /\ cause = "done" /\ exitCode = 0
            /\ head = HotfixBranch(name)
            /\ pre.local[HotfixBranch(name)] = NoCommit
            /\ local[head] = local["production"]
            /\ origin["production"] \in Anc(local["production"])
       ELSE /\ exitCode = 1
            /\ head = pre.head
            /\ \A b \in Branches : pre.local[b] = NoCommit => local[b] = NoCommit

\* The clone and origin are exactly as they were when the run started.
Untouched ==
    /\ Len(commits) = pre.ncommits
    /\ local = pre.local /\ tracking = pre.tracking /\ origin = pre.origin
    /\ head = pre.head /\ tree = pre.tree /\ PreFilesKept

\* The run was started with arguments the flow rejects as a usage error.
BadUsage ==
    \/ cmd = "ship" /\ kind \notin {"patch", "minor", "major"}
    \/ cmd = "hotfixFinish" /\ (kind \notin {"patch", "minor"} \/ message = "")
    \/ cmd = "hotfixStart" /\ name = ""
    \/ cmd = "hotfix"

\* The instructions that only look at the command line.
ArgumentChecks == {"usage", "guardKind", "guardName", "guardMessage"}

\* C15: a run with a missing or invalid argument exits 1 at an argument
\* check, before any instruction that runs git or writes a file, and the
\* repository is as it was.
C15_UsageErrorsFirst ==
    (Exited /\ BadUsage)
    => /\ exitCode = 1 /\ cause = "usage"
       /\ \A i \in 1..pc : Program(cmd)[i].op \in ArgumentChecks
       /\ Untouched

C15_Witness ==
    /\ Exited /\ cmd = "hotfixFinish" /\ kind = "major" /\ message # ""
    /\ cause = "usage" /\ head \notin HotfixBranches /\ tree = "dirty"

\* The flows that commit.
CommittingFlows == PipelineFlows \cup {"changeset"}

\* C16: a run of any flow that commits, started with uncommitted changes in
\* the working tree, exits non-zero having created no commit and pushed
\* nothing.
C16_DirtyTreeBlocks ==
    (Exited /\ cmd \in CommittingFlows /\ pre.tree # "clean")
    => /\ exitCode # 0
       /\ Len(commits) = pre.ncommits
       /\ origin = pre.origin

\* production is contained in staging and staging in main, for the given refs.
Ordered(refs) ==
    /\ IsAncestor(refs["production"], refs["staging"])
    /\ IsAncestor(refs["staging"], refs["main"])

\* C17: after every completed flow-release, flow-ship or flow-hotfix finish
\* (in a repository that has the three pipeline branches) production's tip
\* is an ancestor of (or equal to) staging's tip and staging's tip an
\* ancestor of (or equal to) main's tip, locally and on origin.
C17_PipelineOrdered ==
    (Exited /\ cause = "done"
     /\ cmd \in {"release", "ship", "hotfixFinish"}
     /\ pre.local["staging"] # NoCommit /\ pre.local["production"] # NoCommit)
    => Ordered(local) /\ Ordered(origin)

\* The ordering does hold after a completed flow when every earlier run
\* completed as well.
C17_OrderedAfterCompletedRuns ==
    (Exited /\ cause = "done" /\ priorDone
     /\ cmd \in {"release", "ship", "hotfixFinish"})
    => Ordered(local) /\ Ordered(origin)

C17_Witness ==
    /\ Exited /\ cause = "done" /\ priorDone /\ cmd = "hotfixFinish"
    /\ ~priorOk
    /\ Cardinality({local[b] : b \in Pipeline}) = 3

\* C18: a flow re-run right after its previous run was killed between two
\* steps does not repeat work already done: when the killed run had already
\* committed its version bump, the re-run commits no second one.
C18_RerunRepeatsNothing ==
    (interrupted.cmd = cmd /\ interrupted.bumped) => verCommit = NoCommit

\* The instruction a run stopped at.
StoppedAt == CurIns.op

\* The steps of flow-ship, flow-release and flow-hotfix whose failure the
\* exit-code contract names: argument checks, guards, the quality gate,
\* fast-forward merges and pulls.
FatalSteps ==
    {"usage", "guardKind", "guardName", "guardMessage", "guardBranch", "guardClean",
     "guardExists", "guardHotfixBranch", "guardAhead", "quality", "mergeFF", "pull"}

\* C19: a flow-ship run exits 0 exactly when it ran its whole program or
\* the operator declined, and 1 when it stopped at an argument check, a
\* guard, the quality gate, a fast-forward merge or a pull; flow-release
\* and flow-hotfix exit 0 only when they ran their whole program and 1 when
\* they stopped at an argument check, a guard or the quality gate.
C19_ExitCodes ==
    (Exited /\ cmd \in PipelineFlows \cup {"hotfix"})
    => /\ exitCode \in {0, 1}
       /\ cmd = "ship" => (exitCode = 0 <=> StoppedAt \in {"exit", "confirm"})
       /\ cmd # "ship" => (exitCode = 0 <=> StoppedAt = "exit")
       /\ (StoppedAt \in FatalSteps) => exitCode = 1
       /\ (exitCode = 0 /\ StoppedAt = "exit") => pc = Len(Program(cmd))
       /\ (exitCode = 0 /\ StoppedAt = "confirm") => cause = "declined"

C19_Witness ==
    /\ Exited /\ cmd = "ship" /\ exitCode = 1 /\ StoppedAt = "mergeFF"
    /\ origin["production"] # pre.origin["production"]

\* C20: a failing fix script and, in flow-hotfix finish, a failing remote
\* deletion of the hotfix branch do not stop the run: a run whose fix
\* script failed, or that could not delete the remote hotfix branch, goes on
\* to its next step, and when nothing else fails it runs its whole program
\* and exits 0. A run that exits before its last instruction exits non-zero
\* unless the operator declined, and a completed run has passed its quality
\* gate, so no other failure is passed over.
C20_ToleratedFailures ==
    /\ (phase = "running" /\ fixOutcome = "fails")
       => pc > FirstOp(Program(cmd), "fix")
    /\ (Exited /\ cmd \in PipelineFlows /\ cause = "done")
       => /\ exitCode = 0
          /\ pc = Len(Program(cmd))
          /\ cmd # "hotfixStart" => gatePassed
    /\ (Exited /\ cmd \in PipelineFlows /\ pc < Len(Program(cmd)))
       => (exitCode # 0 \/ cause = "declined")
    /\ (Exited /\ cmd \in PipelineFlows /\ exitCode # 0)
       => StoppedAt \notin {"fix", "deleteRemote"}

\* Completed runs whose fix script failed, one of them a flow-hotfix finish
\* that also found no remote hotfix branch to delete.
C20_Witness ==
    /\ Exited /\ cmd = "hotfixFinish" /\ cause = "done" /\ exitCode = 0
    /\ fixOutcome = "fails"
    /\ pre.origin[curBranch] = NoCommit
    /\ local[curBranch] = NoCommit

\* The commits flow-ship is asked to ship: origin's production..staging as
\* the run found it.
ShipRange == LogRange(pre.origin["production"], pre.origin["staging"])

\* C21: flow-ship gets past its ahead guard only when origin's staging is
\* strictly ahead of origin's production; with an empty range the run exits
\* 1 and makes no commit and no change to the manifest or the changelog.
C21_EmptyRangeShipsNothing ==
    (cmd = "ship" /\ phase # "idle"
     /\ pre.origin["production"] # NoCommit /\ pre.origin["staging"] # NoCommit)
    => /\ pc > FirstOp(ShipProgram, "guardAhead") => ShipRange # <<>>
       /\ ShipRange = <<>>
          => /\ Len(commits) = pre.ncommits
             /\ wtVersion = pre.version
             /\ wtChangelog = pre.changelog
             /\ Exited => exitCode = 1

C21_Witness ==
    /\ cmd = "ship" /\ Exited /\ exitCode = 1 /\ StoppedAt = "guardAhead"
    /\ cause = "guard" /\ ShipRange = <<>>
    /\ pre.ncommits > 1

----------------------------------------------------------------------------
(* Properties of the utils.ts functions.                                   *)

\* The latest direct call.
LastCall == calls[Len(calls)]
Called(fn) == calls # <<>> /\ LastCall.fn = fn

\* Text that is a non-negative decimal integer.
IsNatText(s) == IsDigits(s)

\* current is M.N.P with non-negative integers M, N, P.
WellFormed(current) ==
    LET segs == Split(current, ".") IN
    Len(segs) = 3 /\ \A i \in 1..3 : IsNatText(segs[i])

Component(current, i) == ParseDigits(Split(current, ".")[i])

\* C22: for current = M.N.P with non-negative integers, bumpVersion returns
\* (M+1).0.0 for 'major', M.(N+1).0 for 'minor' and M.N.(P+1) for every
\* other kind, 'patch' and unrecognized strings alike.
C22_BumpArithmetic ==
    (Called("bumpVersion") /\ WellFormed(LastCall.args[1]))
    => LET current == LastCall.args[1]
           bump == LastCall.args[2]
           M == Component(current, 1)
           N == Component(current, 2)
           P == Component(current, 3)
           out == Split(LastCall.out, ".")
       IN /\ ~IsError(LastCall.out)
          /\ Len(out) = 3
          /\ \A i \in 1..3 : IsDigits(out[i])
          /\ \A i \in 1..3 : Len(out[i]) = 1 \/ CharAt(out[i], 1) # "0"
          /\ <<ParseDigits(out[1]), ParseDigits(out[2]), ParseDigits(out[3])>>
             = (IF bump = "major" THEN <<M + 1, 0, 0>>
                ELSE IF bump = "minor" THEN <<M, N + 1, 0>>
                ELSE <<M, N, P + 1>>)

C22_Witness ==
    /\ Called("bumpVersion")
    /\ LastCall.args = <<"0.9.0", "glorb">>
    /\ LastCall.out = "0.9.1"

\* C23: bumpVersion fails with an invalid-version error, whatever the kind,
\* whenever current is not exactly three dot-separated non-negative
\* integers; it returns no version then.
C23_MalformedRejected ==
    (Called("bumpVersion") /\ ~WellFormed(LastCall.args[1]))
    => IsError(LastCall.out)

\* What the code does reject: a wrong number of components and components
\* that Number() turns into NaN.
C23_WrongCountOrNaNRejected ==
    (Called("bumpVersion")
     /\ LET segs == Split(LastCall.args[1], ".") IN
        Len(segs) # 3 \/ \E i \in 1..Len(segs) : Number(segs[i]) = NaN)
    => IsError(LastCall.out)

\* 1-based positions at which a line of doc begins with "## ".
HeadingStarts(doc) ==
    {i \in 1..(Len(doc) - 2) :
        SubSeq(doc, i, i + 2) = "## " /\ (i = 1 \/ CharAt(doc, i - 1) = "\n")}

Min(S) == CHOOSE x \in S : \A y \in S : x <= y

\* out ends with the entry followed by everything of existing from the
\* 1-based position at on.
EntryGoesBefore(existing, entry, out, at) ==
    LET rest == SubSeq(existing, at, Len(existing))
        tail == entry \o rest
    IN /\ Len(out) >= Len(tail)
       /\ SubSeq(out, Len(out) - Len(tail) + 1, Len(out)) = tail

\* C24 as stated: whenever the existing document has a line beginning with
\* "## ", on its first line or later, the new entry ends up before every
\* such heading.
C24_BeforeEverySection ==
    (Called("insertChangelog") /\ LastCall.args[1] # NoFile
     /\ HeadingStarts(LastCall.args[1]) # {})
    => EntryGoesBefore(LastCall.args[1], LastCall.args[2], LastCall.out,
                       Min(HeadingStarts(LastCall.args[1])))

\* C24 amended: the new entry goes immediately before the first "## " line
\* found after the document's first line; a "## " heading on the first line
\* itself stays above the new entry, and when it is the only heading the
\* entry is appended below its section.
C24_BeforeFirstSectionBelowLineOne ==
    (Called("insertChangelog") /\ LastCall.args[1] # NoFile)
    => LET existing == LastCall.args[1]
           entry == LastCall.args[2]
           below == HeadingStarts(existing) \ {1}
       IN /\ below # {}
             => EntryGoesBefore(existing, entry, LastCall.out, Min(below))
          /\ (below = {} /\ 1 \in HeadingStarts(existing))
             => LastCall.out = TrimEnd(existing) \o "\n\n" \o entry

C24_Witness ==
    /\ Called("insertChangelog")
    /\ 1 \in HeadingStarts(LastCall.args[1])
    /\ Cardinality(HeadingStarts(LastCall.args[1])) >= 2
    /\ Cardinality(HeadingStarts(LastCall.out)) >= 3

Title == "# Changelog"

\* The entries given to the insertChangelog calls so far, latest first.
RECURSIVE LatestFirst(_)
LatestFirst(log) ==
    IF log = <<>> THEN <<>>
    ELSE <<log[Len(log)].args[2]>> \o LatestFirst(SubSeq(log, 1, Len(log) - 1))

StartedWithoutFile == calls # <<>> /\ calls[1].fn = "insertChangelog" /\ calls[1].args[1] = NoFile

\* Number of lines of doc that are exactly the title line.
TitleLines(doc) ==
    Cardinality({i \in 1..Len(Split(doc, "\n")) : Split(doc, "\n")[i] = Title})

\* C25: starting from no changelog file, after n >= 1 insertChangelog calls
\* the document begins with the title line, which occurs exactly once, and
\* carries the n entries latest first.
C25_NewestFirstFromScratch ==
    StartedWithoutFile
    => /\ SubSeq(wtChangelog, 1, Len(Title) + 1) = Title \o "\n"
       /\ TitleLines(wtChangelog) = 1
       /\ LET entries == LatestFirst(calls)
              starts == [i \in 1..Len(entries) |->
                            Len(wtChangelog) + 1
                            - Len(Join(SubSeq(entries, i, Len(entries)), ""))]
          IN \A i \in 1..Len(entries) :
                /\ starts[i] > Len(Title) + 1
                /\ SubSeq(wtChangelog, starts[i], starts[i] + Len(entries[i]) - 1)
                   = entries[i]
                /\ starts[i] \in HeadingStarts(wtChangelog)
       /\ Cardinality(HeadingStarts(wtChangelog)) = Len(calls)

C25_Witness ==
    /\ StartedWithoutFile /\ Len(calls) = MaxCalls
    /\ calls[1].args[2] # calls[2].args[2]
    /\ calls[2].args[2] # calls[3].args[2]

\* Where the code splits the existing document: the 1-based position of the
\* first "## " line below line one, or the end of the document.
SplitAt(existing) ==
    LET below == HeadingStarts(existing) \ {1} IN
    IF below # {} THEN Min(below) ELSE Len(existing) + 1

EndsWith(s, t) == Len(s) >= Len(t) /\ SubSeq(s, Len(s) - Len(t) + 1, Len(s)) = t
StartsWith(s, t) == Len(s) >= Len(t) /\ SubSeq(s, 1, Len(t)) = t

\* out keeps what existing has from the split on, after the entry, and what
\* it has before the split, at its start.
Preserved(existing, entry, out) ==
    LET at == SplitAt(existing) IN
    /\ EndsWith(out, entry \o SubSeq(existing, at, Len(existing)))
    /\ StartsWith(out, SubSeq(existing, 1, at - 1))

\* An empty line stands between the entry and the text on either side.
BlankLineAround(existing, entry, out) ==
    LET at == SplitAt(existing)
        rest == SubSeq(existing, at, Len(existing))
        before == SubSeq(out, 1, Len(out) - Len(entry \o rest))
    IN /\ before # "" => EndsWith(before, "\n\n")
       /\ rest # "" => (EndsWith(entry, "\n\n") \/ StartsWith(rest, "\n"))

\* C26: an insertion into an existing document keeps every pre-existing
\* section, heading and body, unaltered and in order, keeps what precedes
\* the insertion point verbatim, and sets the new entry off from the text
\* on either side by a blank line.
C26_PreservesAndSeparates ==
    (Called("insertChangelog") /\ LastCall.args[1] # NoFile)
    => /\ Preserved(LastCall.args[1], LastCall.args[2], LastCall.out)
       /\ BlankLineAround(LastCall.args[1], LastCall.args[2], LastCall.out)

\* What the code does keep: the text from the insertion point on, byte for
\* byte, and the text before it up to trailing whitespace, with a blank line
\* between that text and the entry.
C26_SectionsKept ==
    (Called("insertChangelog") /\ LastCall.args[1] # NoFile)
    => LET existing == LastCall.args[1]
           entry == LastCall.args[2]
           at == SplitAt(existing)
           rest == SubSeq(existing, at, Len(existing))
       IN /\ EndsWith(LastCall.out, entry \o rest)
          /\ StartsWith(LastCall.out, TrimEnd(SubSeq(existing, 1, at - 1)))
          /\ EndsWith(LastCall.out, "\n\n" \o entry \o rest)

\* C27: confirm writes exactly "<promptText> (y/N) ", reads one line, and
\* returns true exactly when that line, trimmed, is "y" or "Y"; the empty
\* line, "n", "yes" and every other line give false, with no second read.
C27_ConfirmOnlyOnY ==
    Called("confirm")
    => /\ LastCall.out.written = LastCall.args[1] \o " (y/N) "
       /\ LastCall.out.reads = 1
       /\ LastCall.out.result <=> Trim(LastCall.args[2]) \in {"y", "Y"}

C27_Witness ==
    /\ Called("confirm")
    /\ LastCall.args = <<"Ship it?", "yes">>
    /\ ~LastCall.out.result

\* C28: the quality gate runs build, typecheck, report in this order; a
\* script runs only if every earlier one exited zero, the first non-zero
\* exit ends the gate with a failure, the gate returns normally only when
\* all three exited zero, and no script is run twice.
C28_GateFailsFast ==
    Called("runQualityChecks")
    => LET exits == LastCall.args
           ran == LastCall.out.ran
           order == <<"build", "typecheck", "report">>
       IN /\ Len(ran) <= 3
          /\ ran = SubSeq(order, 1, Len(ran))
          /\ \A i \in 1..3 : (i <= Len(ran)) <=> (\A k \in 1..(i - 1) : exits[k])
          /\ LastCall.out.returned <=> (Len(ran) = 3 /\ \A i \in 1..3 : exits[i])
          /\ ~LastCall.out.returned => ~exits[Len(ran)]

C28_Witness ==
    /\ Called("runQualityChecks")
    /\ LastCall.out.ran = <<"build", "typecheck">>
    /\ ~LastCall.out.returned
    /\ LastCall.args[3]

\* The lines of doc that are bullets.
BulletLines(doc) ==
    SelectSeq(Split(doc, "\n"), LAMBDA l : Len(l) >= 2 /\ SubSeq(l, 1, 2) = "- ")

\* The commit a version commit was made on.
ParentOf(c) == CHOOSE p \in commits[c].parents : TRUE

\* C29 as stated: the changelog section flow-ship writes has exactly one bullet per
\* commit reachable from staging's tip (before the version commit) and not
\* from production's tip, in log order, above the bullets the changelog had
\* before; the version commit itself is not among them.
C29_OneBulletPerShippedCommit ==
    (cmd = "ship" /\ verCommit # NoCommit)
    => LET tip == ParentOf(verCommit)
           range == LogRange(pre.origin["production"], tip)
           old == BulletLines(commits[tip].changelog)
           new == BulletLines(commits[verCommit].changelog)
       IN /\ Len(range) >= 1
          /\ Len(new) = Len(old) + Len(range)
          /\ \A i \in 1..Len(range) : new[i] = "- " \o commits[range[i]].subject
          /\ SubSeq(new, Len(range) + 1, Len(new)) = old
          /\ \A i \in 1..Len(range) : range[i] # verCommit
          /\ \A i \in 1..Len(new) : new[i] # "- " \o commits[verCommit].subject

\* The commits of a range whose subject is not blank, in log order.
Titled(range) == SelectSeq(range, LAMBDA c : Trim(commits[c].subject) # "")

\* C29 amended: the section has exactly one bullet per commit of the range
\* that has a non-blank subject, in log order, each beginning with the
\* subject's first characters; a commit with an empty subject gets no
\* bullet, and when no commit of the range has a subject the section's body
\* is the line "<kind> release" and has no bullet.
C29_OneBulletPerTitledCommit ==
    (cmd = "ship" /\ verCommit # NoCommit)
    => LET tip == ParentOf(verCommit)
           range == LogRange(pre.origin["production"], tip)
           titled == Titled(range)
           old == BulletLines(commits[tip].changelog)
           new == BulletLines(commits[verCommit].changelog)
       IN /\ Len(range) >= 1
          /\ Len(new) = Len(old) + Len(titled)
          /\ \A i \in 1..Len(titled) :
                LET subject == Trim(commits[titled[i]].subject)
                    shown == IF Len(subject) > KeptChars THEN KeptChars ELSE Len(subject)
                IN StartsWith(new[i], "- " \o SubSeq(subject, 1, shown))
          /\ SubSeq(new, Len(titled) + 1, Len(new)) = old
          /\ \A i \in 1..Len(range) : range[i] # verCommit
          /\ \A i \in 1..Len(new) : new[i] # "- " \o commits[verCommit].subject
          /\ titled = <<>>
             => \E i \in 1..Len(Split(commits[verCommit].changelog, "\n")) :
                   Split(commits[verCommit].changelog, "\n")[i] = kind \o " release"

\* A shipped range of two commits, one of them without a subject.
C29_Witness ==
    /\ cmd = "ship" /\ verCommit # NoCommit /\ Exited /\ cause = "done"
    /\ LET range == LogRange(pre.origin["production"], ParentOf(verCommit)) IN
       Len(range) = 2 /\ Len(Titled(range)) = 1

\* How the changelog written by this flow-ship run shows the i-th commit of
\* the shipped range that has a subject: its bullet without the "- ".
Rendered(i) == SliceFrom(BulletLines(commits[verCommit].changelog)[i], 2)

\* C30: flow-ship renders a subject of at most 98 characters unchanged and
\* a longer one as its first 95 characters followed by "..."; every
\* rendered subject has at most 98 characters.
C30_SubjectTruncation ==
    (cmd = "ship" /\ verCommit # NoCommit)
    => LET titled == Titled(LogRange(pre.origin["production"], ParentOf(verCommit))) IN
       \A i \in 1..Len(titled) :
          LET subject == commits[titled[i]].subject IN
          /\ Len(subject) <= 98 => Rendered(i) = subject
          /\ Len(subject) > 98 => Rendered(i) = SubSeq(subject, 1, 95) \o "..."
          /\ Len(Rendered(i)) <= 98

\* A shipped range with a subject of exactly 98 and one of more than 98
\* characters.
C30_Witness ==
    /\ cmd = "ship" /\ verCommit # NoCommit
    /\ LET titled == Titled(LogRange(pre.origin["production"], ParentOf(verCommit))) IN
       /\ \E i \in 1..Len(titled) : Len(commits[titled[i]].subject) = 98
       /\ \E i \in 1..Len(titled) : Len(commits[titled[i]].subject) > 98

----------------------------------------------------------------------------
(* flow-ship and flow-hotfix on repositories whose package.json has its    *)
(* members in all kinds of order.                                          *)

\* package.json files: the usual ones, the version first, keys that are array
\* indices, a repeated key, and a numeric key with a leading zero.
Manifests ==
    {PackageJson,
     <<[key |-> "name", value |-> "a"], [key |-> "version", value |-> InitialVersion],
       [key |-> "type", value |-> "module"]>>,
     <<[key |-> "version", value |-> InitialVersion], [key |-> "name", value |-> "a"]>>,
     <<[key |-> "name", value |-> "a"], [key |-> "2", value |-> "two"],
       [key |-> "version", value |-> InitialVersion], [key |-> "1", value |-> "one"]>>,
     <<[key |-> "name", value |-> "a"], [key |-> "version", value |-> InitialVersion],
       [key |-> "name", value |-> "b"]>>,
     <<[key |-> "01", value |-> "x"], [key |-> "name", value |-> "a"],
       [key |-> "version", value |-> InitialVersion]>>}

\* Staging is one commit ahead of production.
ManifestInit ==
    /\ commits = <<[parents |-> {}, version |-> InitialVersion,
                    changelog |-> NoFile, subject |-> "feat: initial"],
                   NewCommit({1}, InitialVersion, NoFile, WorkSubject)>>
    /\ local = [b \in Branches |->
                   IF b \in {"main", "staging"} THEN 2
                   ELSE IF b = "production" THEN 1 ELSE NoCommit]
    /\ tracking = local
    /\ origin = local
    /\ head = "main"
    /\ wtVersion = InitialVersion
    /\ wtFields \in Manifests
    /\ wtChangelog = NoFile
    /\ tree = "clean"
    /\ phase = "idle"
    /\ cmd = "none"
    /\ subcommand = ""
    /\ pc = 0
    /\ kind = ""
    /\ name = ""
    /\ message = ""
    /\ curBranch = ""
    /\ exitCode = -1
    /\ cause = ""
    /\ gatePassed = FALSE
    /\ fixOutcome = ""
    /\ lastDone = ""
    /\ verCommit = NoCommit
    /\ pre = NoPre
    /\ priorOk = TRUE
    /\ priorDone = TRUE
    /\ interrupted = NoRun
    /\ events = 0
    /\ calls = <<>>

ManifestNext ==
    \/ StartShip \/ StartHotfixStart \/ StartHotfixFinish \/ Finish
    \/ GuardKind \/ GuardName \/ GuardMessage \/ GuardBranch \/ GuardClean
    \/ GuardExists \/ GuardHotfixBranch \/ GuardAhead \/ Confirm
    \/ Fetch \/ Checkout \/ CheckoutNew \/ Pull \/ MergeFF \/ MergeNoFF \/ Push
    \/ DeleteLocal \/ DeleteRemote
    \/ Quality \/ WriteManifest \/ WriteChangelog \/ Fix \/ AddAll \/ Commit \/ ExitOk

ManifestSpec == ManifestInit /\ [][ManifestNext]_vars

\* The manifest as the write step reads it.
ManifestRead ==
    [i \in 1..Len(wtFields) |->
        IF wtFields[i].key = "version"
        THEN [key |-> "version", value |-> wtVersion] ELSE wtFields[i]]

\* The step is the manifest write of flow-ship or flow-hotfix finish.
ManifestWrite ==
    /\ phase = "running" /\ cmd \in {"ship", "hotfixFinish"}
    /\ CurIns.op = "writeManifest"
    /\ phase' = "running" /\ pc' = pc + 1

\* C31: the manifest write changes only the version: every other member has
\* the same key, value and position as in the manifest that was read, and the
\* new version is bumpVersion(read version, kind).
C31_OnlyVersionRewritten ==
    [][ManifestWrite =>
        /\ Len(wtFields') = Len(ManifestRead)
        /\ \A i \in 1..Len(ManifestRead) :
              IF ManifestRead[i].key = "version"
              THEN wtFields'[i] = [key |-> "version", value |-> bumpVersion(wtVersion, kind)]
              ELSE wtFields'[i] = ManifestRead[i]
        /\ wtVersion' = bumpVersion(wtVersion, kind)]_vars

Keys(members) == {members[i].key : i \in 1..Len(members)}
FirstAt(members, key) == CHOOSE i \in 1..Len(members) :
    members[i].key = key /\ \A j \in 1..(i - 1) : members[j].key # key
LastAt(members, key) == CHOOSE i \in 1..Len(members) :
    members[i].key = key /\ \A j \in (i + 1)..Len(members) : members[j].key # key

\* C31 (as the code has it): the manifest write keeps the keys of the manifest
\* that was read, each once and each but the version with the value it has
\* there (its last one, if the key is repeated); the version becomes
\* bumpVersion(read version, kind); keys that are array indices come first in
\* ascending order, and all others follow in the order of their first
\* appearance in the manifest that was read.
C31_ParsedMembersKept ==
    [][ManifestWrite =>
        /\ Keys(wtFields') = Keys(ManifestRead)
        /\ \A i, j \in 1..Len(wtFields') : wtFields'[i].key = wtFields'[j].key => i = j
        /\ \A i \in 1..Len(wtFields') :
              wtFields'[i].value =
                  IF wtFields'[i].key = "version" THEN bumpVersion(wtVersion, kind)
                  ELSE ManifestRead[LastAt(ManifestRead, wtFields'[i].key)].value
        /\ \A i, j \in 1..Len(wtFields') :
              i < j =>
                 IF IsArrayIndex(wtFields'[j].key)
                 THEN /\ IsArrayIndex(wtFields'[i].key)
                      /\ ParseDigits(wtFields'[i].key) < ParseDigits(wtFields'[j].key)
                 ELSE \/ IsArrayIndex(wtFields'[i].key)
                      \/ FirstAt(ManifestRead, wtFields'[i].key)
                            < FirstAt(ManifestRead, wtFields'[j].key)
        /\ wtVersion' = bumpVersion(wtVersion, kind)]_vars

\* flow-hotfix finish has rewritten a manifest that had array-index keys
\* after its name.
C31_Witness ==
    /\ phase = "running" /\ cmd = "hotfixFinish"
    /\ CurIns.op = "writeChangelog"
    /\ wtVersion = bumpVersion(pre.version, kind)
    /\ Len(wtFields) = 4 /\ wtFields[1].key = "1" /\ wtFields[3].key = "name"
    /\ wtFields[4] = [key |-> "version", value |-> wtVersion]

\* The commit is a merge commit created by the current run.
NewMerge(c) == c > pre.ncommits /\ Cardinality(commits[c].parents) = 2

\* C32: after a completed flow-hotfix finish the tips of production, staging
\* and main are three distinct merge commits made by the run: production's
\* joins the old production tip and the hotfix version commit, staging's has
\* production's tip as a parent and main's has staging's tip as a parent.
C32_ThreeMergeCommits ==
    (Exited /\ cmd = "hotfixFinish" /\ cause = "done")
    => /\ NewMerge(local["production"]) /\ NewMerge(local["staging"])
       /\ NewMerge(local["main"])
       /\ local["production"] # local["staging"] /\ local["staging"] # local["main"]
       /\ local["production"] # local["main"]
       /\ commits[local["production"]].parents = {pre.local["production"], verCommit}
       /\ local["production"] \in commits[local["staging"]].parents
       /\ local["staging"] \in commits[local["main"]].parents
       /\ \A b \in Pipeline : origin[b] = local[b]

\* A hotfix was finished on a pipeline whose three branches were at one tip,
\* so that every one of the three merges could have been a fast-forward.
C32_Witness ==
    /\ Exited /\ cmd = "hotfixFinish" /\ cause = "done"
    /\ pre.local["production"] = pre.local["staging"]
    /\ pre.local["staging"] = pre.local["main"]
    /\ pre.local["production"] \in commits[verCommit].parents
    /\ NewMerge(local["main"])

\* The step taken is the conditional commit of flow-release with something
\* staged.
CommitsStaged == CurIns.op = "commitIfStaged" /\ tree = "staged"

\* C33: in a flow-release run the only step that creates a commit is the
\* conditional commit with something staged, which creates exactly one, the
\* first of the run, on top of main's tip and with the subject
\* 'chore(staging): <message>' ('auto-fix formatting' without an argument);
\* every other step after the pull, the conditional commit with nothing
\* staged included, leaves main's tip where the pull left it.
C33_ConditionalCommit ==
    [][(phase = "running" /\ cmd = "release") =>
        IF CommitsStaged
        THEN /\ Len(commits) = pre.ncommits
             /\ commits' = Append(commits, commits'[Len(commits) + 1])
             /\ commits'[Len(commits) + 1].parents = {local["main"]}
             /\ commits'[Len(commits) + 1].subject =
                   IF message = "" THEN "chore(staging): auto-fix formatting"
                   ELSE "chore(staging): " \o message
             /\ local'["main"] = Len(commits) + 1
        ELSE /\ commits' = commits
             /\ CurIns.op \notin {"pull"} => local'["main"] = local["main"]]_vars

\* flow-release without an argument completed and committed the formatting
\* fixes under the default message.
C33_Witness ==
    /\ Exited /\ cmd = "release" /\ cause = "done" /\ message = ""
    /\ Len(commits) = pre.ncommits + 1
    /\ commits[local["main"]].subject = "chore(staging): auto-fix formatting"
    /\ local["main"] = Len(commits)

\* The run follows a completed flow-hotfix finish with nothing in between.
FollowsHotfix == phase # "idle" /\ pre.after = "hotfixFinish"

\* C34: when flow-hotfix finish has completed, origin/staging is ahead of
\* origin/production, which it contains, and the commits it is ahead by
\* include the merge of production into staging; a flow-ship run right after
\* it does not stop at the nothing-to-ship guard.
C34_ShipAfterHotfixPassesGuard ==
    /\ (Exited /\ cmd = "hotfixFinish" /\ cause = "done")
       => /\ IsAncestor(origin["production"], origin["staging"])
          /\ origin["staging"] # origin["production"]
          /\ NewMerge(origin["staging"])
          /\ \E i \in 1..Len(LogRange(tracking["production"], tracking["staging"])) :
                LogRange(tracking["production"], tracking["staging"])[i] = origin["staging"]
    /\ (FollowsHotfix /\ cmd = "ship" /\ Exited) => CurIns.op # "guardAhead"

\* flow-ship, run right after a hotfix was finished on a pipeline whose
\* staging had nothing that production lacked, is past the nothing-to-ship
\* guard: all it ships is the merge of production into staging, whose files
\* are production's.
C34_Witness ==
    /\ FollowsHotfix /\ cmd = "ship" /\ phase = "running" /\ CurIns.op = "confirm"
    /\ LogRange(pre.origin["production"], pre.origin["staging"]) = <<pre.origin["staging"]>>
    /\ commits[pre.origin["staging"]].version = commits[pre.origin["production"]].version
    /\ commits[pre.origin["staging"]].changelog = commits[pre.origin["production"]].changelog

\* Version a precedes version b: major first, then minor, then patch.
Precedes(a, b) ==
    \/ Component(a, 1) < Component(b, 1)
    \/ Component(a, 1) = Component(b, 1) /\ Component(a, 2) < Component(b, 2)
    \/ /\ Component(a, 1) = Component(b, 1) /\ Component(a, 2) = Component(b, 2)
       /\ Component(a, 3) < Component(b, 3)

\* The version commits that production holds on origin.
Releases ==
    {c \in Anc(origin["production"]) :
        commits[c].subject \in
            {"chore(release): " \o PackageName \o "@" \o commits[c].version,
             "chore(hotfix): " \o PackageName \o "@" \o commits[c].version}}

\* The operator switches to another hotfix branch.
OperatorCheckout ==
    /\ phase = "idle" /\ tree = "clean"
    /\ events < MaxEvents
    /\ events' = events + 1
    /\ \E b \in HotfixBranches :
          /\ b # head /\ local[b] # NoCommit
          /\ head' = b
          /\ wtVersion' = commits[local[b]].version
          /\ wtChangelog' = commits[local[b]].changelog
    /\ UNCHANGED <<commits, local, tracking, origin, tree, priorOk>>
    /\ IdleFrame

\* Two hotfix branches were started from the same production tip; the first
\* is checked out.
HotfixPairInit ==
    /\ commits = <<[parents |-> {}, version |-> InitialVersion,
                    changelog |-> NoFile, subject |-> "feat: initial"]>>
    /\ local = [b \in Branches |-> 1]
    /\ tracking = SetupRefs(Pipeline)
    /\ origin = SetupRefs(Pipeline)
    /\ head = HotfixBranch("a")
    /\ wtVersion = InitialVersion
    /\ wtFields = PackageJson
    /\ wtChangelog = NoFile
    /\ tree = "clean"
    /\ phase = "idle"
    /\ cmd = "none"
    /\ subcommand = ""
    /\ pc = 0
    /\ kind = ""
    /\ name = ""
    /\ message = ""
    /\ curBranch = ""
    /\ exitCode = -1
    /\ cause = ""
    /\ gatePassed = FALSE
    /\ fixOutcome = ""
    /\ lastDone = ""
    /\ verCommit = NoCommit
    /\ pre = NoPre
    /\ priorOk = TRUE
    /\ priorDone = TRUE
    /\ interrupted = NoRun
    /\ events = 0
    /\ calls = <<>>

HotfixPairNext ==
    \/ StartHotfixFinish \/ Finish \/ OperatorCheckout \/ OperatorCommit
    \/ GuardKind \/ GuardMessage \/ GuardHotfixBranch \/ GuardClean
    \/ Quality \/ WriteManifest \/ WriteChangelog \/ Fix \/ AddAll \/ Commit
    \/ Fetch \/ Checkout \/ Pull \/ MergeNoFF \/ Push \/ DeleteLocal \/ DeleteRemote
    \/ ExitOk

HotfixPairSpec == HotfixPairInit /\ [][HotfixPairNext]_vars

\* C35: a completed flow-ship or flow-hotfix finish leaves production, on
\* origin, with a manifest version greater than the one it had when the run
\* started, and no two version commits that production holds carry the same
\* version.
C35_VersionsIncrease ==
    /\ (Exited /\ cmd \in {"ship", "hotfixFinish"} /\ cause = "done")
       => /\ pre.origin["production"] # NoCommit
          /\ Precedes(commits[pre.origin["production"]].version,
                      commits[origin["production"]].version)
    /\ origin["production"] # NoCommit
       => \A c, d \in Releases : commits[c].version = commits[d].version => c = d

\* Every version commit of the pipeline that origin's branch b holds.
VersionCommitsOn(b) ==
    {c \in Anc(origin[b]) :
        commits[c].subject \in
            {"chore(release): " \o PackageName \o "@" \o commits[c].version,
             "chore(hotfix): " \o PackageName \o "@" \o commits[c].version}}

\* C36: at every point of a flow-ship or flow-hotfix finish run, the version
\* commit of the run, and any other version commit, is in origin/staging or
\* origin/main only if it is in origin/production; at every point of a
\* flow-release run, origin/main has moved only if origin/staging holds what
\* origin/main holds.
C36_PushOrdering ==
    /\ (phase # "idle" /\ cmd \in {"ship", "hotfixFinish"} /\ verCommit # NoCommit)
       => \A b \in {"staging", "main"} :
             verCommit \in Anc(origin[b]) => verCommit \in Anc(origin["production"])
    /\ (phase # "idle" /\ cmd \in {"ship", "hotfixFinish"})
       => \A b \in {"staging", "main"} :
             origin[b] # NoCommit /\ origin["production"] # NoCommit
             => VersionCommitsOn(b) \subseteq VersionCommitsOn("production")
    /\ (phase # "idle" /\ cmd = "release" /\ origin["main"] # pre.origin["main"])
       => origin["main"] \in Anc(origin["staging"])

\* flow-ship is between its pushes: the version commit is on origin/production
\* and not yet on origin/main or origin/staging.
C36_Witness ==
    /\ phase = "running" /\ cmd = "ship" /\ verCommit # NoCommit
    /\ verCommit \in Anc(origin["production"])
    /\ verCommit \notin Anc(origin["main"]) /\ verCommit \notin Anc(origin["staging"])

----------------------------------------------------------------------------
(* flow-ship on a repository whose "Branch Setup" was done in part: staging *)
(* and production may exist in the clone without having been pushed.        *)

SetupInit ==
    /\ commits = <<[parents |-> {}, version |-> InitialVersion,
                    changelog |-> NoFile, subject |-> "feat: initial"],
                   NewCommit({1}, InitialVersion, NoFile, WorkSubject)>>
    /\ \E created \in SUBSET {"staging", "production"} : \E pushed \in SUBSET created :
          /\ local = [b \in Branches |->
                         IF b = "main" \/ (b = "staging" /\ b \in created) THEN 2
                         ELSE IF b = "production" /\ b \in created THEN 1 ELSE NoCommit]
          /\ origin = [b \in Branches |->
                          IF b = "main" \/ (b = "staging" /\ b \in pushed) THEN 2
                          ELSE IF b = "production" /\ b \in pushed THEN 1 ELSE NoCommit]
          /\ tracking = origin
    /\ head = "main"
    /\ wtVersion = InitialVersion
    /\ wtFields = PackageJson
    /\ wtChangelog = NoFile
    /\ tree = "clean"
    /\ phase = "idle"
    /\ cmd = "none"
    /\ subcommand = ""
    /\ pc = 0
    /\ kind = ""
    /\ name = ""
    /\ message = ""
    /\ curBranch = ""
    /\ exitCode = -1
    /\ cause = ""
    /\ gatePassed = FALSE
    /\ fixOutcome = ""
    /\ lastDone = ""
    /\ verCommit = NoCommit
    /\ pre = NoPre
    /\ priorOk = TRUE
    /\ priorDone = TRUE
    /\ interrupted = NoRun
    /\ events = 0
    /\ calls = <<>>

SetupSpec == SetupInit /\ [][ShipLogNext]_vars

\* C37: once the existence guards of flow-ship have passed, origin/staging
\* and origin/production are remote-tracking refs of the clone, and the run
\* does not end at the ahead check with a git error.
C37_GuardsImplyTrackingRefs ==
    (phase # "idle" /\ cmd = "ship" /\ CurIns.op \in {"guardAhead", "confirm"})
    => /\ tracking["staging"] # NoCommit /\ tracking["production"] # NoCommit
       /\ ~(Exited /\ cause = "git")

\* doc has a line that is exactly l.
HasLine(doc, l) == \E i \in 1..Len(Split(doc, "\n")) : Split(doc, "\n")[i] = l

\* C38: when flow-ship is at its changelog step, and right after it, the
\* range origin/production..HEAD is not empty and holds every commit of the
\* range origin/production..origin/staging that passed the ahead check; the
\* changelog written has the line "<kind> release" only if every commit of
\* the range has a blank subject.
C38_FallbackOnlyForBlankSubjects ==
    (cmd = "ship" /\ phase = "running" /\ CurIns.op \in {"writeChangelog", "fix"})
    => LET range == LogRange(tracking["production"], local[head]) IN
       /\ range # <<>>
       /\ \A i \in 1..Len(ShipRange) : \E j \in 1..Len(range) : range[j] = ShipRange[i]
       /\ (CurIns.op = "fix" /\ HasLine(wtChangelog, kind \o " release"))
          => \A j \in 1..Len(range) : Trim(commits[range[j]].subject) = ""

\* flow-ship has written the generic body for a range of two commits without
\* subjects.
C38_Witness ==
    /\ cmd = "ship" /\ phase = "running" /\ CurIns.op = "fix"
    /\ HasLine(wtChangelog, kind \o " release")
    /\ Len(LogRange(tracking["production"], local[head])) = 2

\* C39: for current = M.N.P with non-negative integers and every kind,
\* bumpVersion returns three dot-separated non-negative integers again, a
\* version greater than current; the major bump of current is greater than
\* its minor bump, which is greater than its patch bump; a minor bump leaves
\* patch at 0, a major bump minor and patch.
C39_BumpsOrderedAndChainable ==
    (Called("bumpVersion") /\ WellFormed(LastCall.args[1]))
    => LET current == LastCall.args[1]
           bump == LastCall.args[2]
           out == LastCall.out
       IN /\ WellFormed(out)
          /\ Precedes(current, out)
          /\ Precedes(bumpVersion(current, "patch"), bumpVersion(current, "minor"))
          /\ Precedes(bumpVersion(current, "minor"), bumpVersion(current, "major"))
          /\ bump = "minor" => Component(out, 3) = 0
          /\ bump = "major" => Component(out, 2) = 0 /\ Component(out, 3) = 0

\* Three bumps in a row, each applied to the version the one before returned.
C39_Witness ==
    /\ Len(calls) = 3
    /\ calls[1].args = <<"9.9.9", "minor">> /\ calls[1].out = "9.10.0"
    /\ calls[2].args = <<"9.10.0", "patch">> /\ calls[2].out = "9.10.1"
    /\ calls[3].args = <<"9.10.1", "major">> /\ calls[3].out = "10.0.0"

----------------------------------------------------------------------------
(* lint-package: reorderConditions, as exported by bin/lint/package.ts and *)
(* as the function local to fixExportsOrder in bin/lint-package.ts.        *)

\* JSON values: a string, or an object or array given by its members in
\* enumeration order (an array's keys are its indices).
Value(t, s, m) == [t |-> t, s |-> s, m |-> m]

\* 'key' in obj, and keys.indexOf(key).
HasKey(m, key) == \E i \in 1..Len(m) : m[i].key = key
KeyIndex(m, key) == CHOOSE i \in 1..Len(m) : m[i].key = key

\* { types: obj.types } followed by the assignment of every other key in
\* order.
TypesFirst(m) ==
    JSONParse(<<m[KeyIndex(m, "types")]>> \o SelectSeq(m, LAMBDA f : f.key # "types"))

RECURSIVE reorderConditions(_)
\* Nested plain objects are processed first, then this object is reordered.
\* A top-level array is typeof 'object' and comes back as a plain object.
reorderConditions(obj) ==
    IF obj.t = "str" THEN obj
    ELSE LET processed == [i \in 1..Len(obj.m) |->
                 [key |-> obj.m[i].key,
                  value |-> IF obj.m[i].value.t = "obj"
                            THEN reorderConditions(obj.m[i].value)
                            ELSE obj.m[i].value]]
         IN  IF /\ HasKey(processed, "types") /\ HasKey(processed, "default")
                /\ KeyIndex(processed, "default") < KeyIndex(processed, "types")
             THEN Value("obj", "", TypesFirst(processed))
             ELSE Value("obj", "", processed)

RECURSIVE reorderConditionsInline(_)
\* The local function of bin/lint-package.ts: an object that is reordered is
\* returned with its values as they are.
reorderConditionsInline(obj) ==
    IF obj.t = "str" THEN obj
    ELSE IF /\ HasKey(obj.m, "types") /\ HasKey(obj.m, "default")
            /\ KeyIndex(obj.m, "default") < KeyIndex(obj.m, "types")
    THEN Value("obj", "", TypesFirst(obj.m))
    ELSE Value("obj", "", [i \in 1..Len(obj.m) |->
                        [key |-> obj.m[i].key,
                         value |-> IF obj.m[i].value.t = "obj"
                                   THEN reorderConditionsInline(obj.m[i].value)
                                   ELSE obj.m[i].value]])

\* "exports" fields: conditions in the right and in the wrong order, with
\* other conditions around them, nested one and two levels deep, without
\* conditions, nested in an object that is itself out of order, and inside a
\* fallback array.
Exports ==
    LET js == Value("str", "./dist/foo.js", <<>>)
        dts == Value("str", "./dist/foo.d.ts", <<>>)
        good == Value("obj", "", <<[key |-> "types", value |-> dts],
                              [key |-> "default", value |-> js]>>)
        bad == Value("obj", "", <<[key |-> "default", value |-> js],
                             [key |-> "types", value |-> dts]>>)
    IN {bad,
        good,
        Value("obj", "", <<[key |-> "./foo", value |-> bad]>>),
        Value("obj", "", <<[key |-> "./a", value |-> bad], [key |-> "./b", value |-> good]>>),
        Value("obj", "", <<[key |-> "./foo", value |->
            Value("obj", "", <<[key |-> "default", value |-> js],
                          [key |-> "import", value |-> Value("str", "./dist/foo.mjs", <<>>)],
                          [key |-> "require", value |-> Value("str", "./dist/foo.cjs", <<>>)],
                          [key |-> "types", value |-> dts]>>)]>>),
        Value("obj", "", <<[key |-> "./styles.css", value |-> Value("str", "./dist/styles.css", <<>>)]>>),
        Value("obj", "", <<[key |-> "./foo", value |->
            Value("obj", "", <<[key |-> "browser", value |-> bad],
                          [key |-> "node", value |-> bad]>>)]>>),
        Value("obj", "", <<[key |-> "./foo", value |->
            Value("obj", "", <<[key |-> "default", value |-> bad],
                          [key |-> "types", value |-> dts]>>)]>>),
        Value("obj", "", <<[key |-> "./foo", value |->
            Value("arr", "", <<[key |-> "0", value |-> bad],
                          [key |-> "1", value |-> js]>>)]>>)}

\* reorderConditions(exports) of bin/lint/package.ts.
CallReorderConditions ==
    /\ calls = <<>>
    /\ \E obj \in Exports :
          PureCall("reorderConditions", <<obj>>, reorderConditions(obj))

\* reorderConditions(pkg.exports) inside fixExportsOrder of bin/lint-package.ts.
CallReorderConditionsInline ==
    /\ calls = <<>>
    /\ \E obj \in Exports :
          PureCall("reorderConditionsInline", <<obj>>, reorderConditionsInline(obj))

LintNext == CallReorderConditions \/ CallReorderConditionsInline

LintSpec == UtilsInit /\ [][LintNext]_vars

RECURSIVE SameContent(_, _)
\* a and b have the same keys with the same values at every level.
SameContent(a, b) ==
    /\ a.t = b.t /\ a.s = b.s
    /\ Keys(a.m) = Keys(b.m) /\ Len(a.m) = Len(b.m)
    /\ \A i \in 1..Len(a.m) :
          SameContent(a.m[i].value, b.m[KeyIndex(b.m, a.m[i].key)].value)

RECURSIVE OthersInOrder(_, _)
\* At every level, the keys other than 'types' are in the same order in a
\* and b.
OthersInOrder(a, b) ==
    /\ LET others(m) == SelectSeq([i \in 1..Len(m) |-> m[i].key], LAMBDA k : k # "types")
       IN others(a.m) = others(b.m)
    /\ \A i \in 1..Len(a.m) :
          OthersInOrder(a.m[i].value, b.m[KeyIndex(b.m, a.m[i].key)].value)

RECURSIVE TypesBeforeDefault(_)
\* Every object of v that has both keys lists 'types' before 'default'.
TypesBeforeDefault(v) ==
    /\ (v.t = "obj" /\ HasKey(v.m, "types") /\ HasKey(v.m, "default"))
       => KeyIndex(v.m, "types") < KeyIndex(v.m, "default")
    /\ \A i \in 1..Len(v.m) : TypesBeforeDefault(v.m[i].value)

\* C40: the result of reorderConditions, in either version, has the keys and
\* values of its input at every level, lists 'types' before 'default' in
\* every object that has both, keeps the other keys in their order, and is
\* left as it is by a second application.
C40_ReorderConditions ==
    (Called("reorderConditions") \/ Called("reorderConditionsInline"))
    => /\ SameContent(LastCall.args[1], LastCall.out)
       /\ OthersInOrder(LastCall.args[1], LastCall.out)
       /\ TypesBeforeDefault(LastCall.out)
       /\ Called("reorderConditions") => reorderConditions(LastCall.out) = LastCall.out
       /\ Called("reorderConditionsInline")
          => reorderConditionsInline(LastCall.out) = LastCall.out

====
